---- MODULE Spec2Model ----
(***************************************************************************)
(* Model of the memory-module crate: the retention model (model.rs), the   *)
(* similarity kernels (simd_utils.rs, simd.rs, concurrent_store.rs) and    *)
(* the three record stores (store.rs, concurrent_store.rs,                 *)
(* sharded_store.rs).                                                      *)
(*                                                                         *)
(* f32/f64 values are modelled as fixed-point integers, SCALE units per    *)
(* 1.0, rounded to nearest after every multiplication and division, with   *)
(* the three IEEE-754 specials +Inf, -Inf and NaN kept as distinct values  *)
(* and propagated the way the hardware propagates them.  FMAX plays the    *)
(* role of f32::MAX: a finite result beyond it becomes an infinity.        *)
(***************************************************************************)
EXTENDS Integers, Sequences, FiniteSets, TLC

(***************************************************************************)
(* Floating point                                                          *)
(***************************************************************************)
SCALE == 10 * 10 * 10
FMAX == 1000000
PInf == FMAX + 1
NInf == -(FMAX + 1)
NaN == FMAX + 2
IsNaN(x) == x = NaN
IsInf(x) == x = PInf \/ x = NInf
IsFinite(x) == ~IsNaN(x) /\ ~IsInf(x)
Abs(n) == IF n < 0 THEN -n ELSE n
Sign(x) == IF x < 0 THEN -1 ELSE IF x > 0 THEN 1 ELSE 0
FRound(n) == IF n > FMAX THEN PInf ELSE IF n < -FMAX THEN NInf ELSE n
RDiv(n, d) == IF n >= 0 THEN (2 * n + d) \div (2 * d) ELSE -((2 * (-n) + d) \div (2 * d))
FNeg(a) == IF IsNaN(a) THEN NaN ELSE -a
FAdd(a, b) ==
    IF IsNaN(a) \/ IsNaN(b) THEN NaN
    ELSE IF IsInf(a) /\ IsInf(b) THEN (IF a = b THEN a ELSE NaN)
    ELSE IF IsInf(a) THEN a
    ELSE IF IsInf(b) THEN b
    ELSE FRound(a + b)
FSub(a, b) == FAdd(a, FNeg(b))
MulMag(a, b) == (a \div SCALE) * b + RDiv((a % SCALE) * b, SCALE)
FMul(a, b) ==
    IF IsNaN(a) \/ IsNaN(b) THEN NaN
    ELSE IF IsInf(a) \/ IsInf(b)
         THEN (IF a = 0 \/ b = 0 THEN NaN ELSE IF Sign(a) * Sign(b) > 0 THEN PInf ELSE NInf)
    ELSE FRound(Sign(a) * Sign(b) * MulMag(Abs(a), Abs(b)))
FDiv(a, b) ==
    IF IsNaN(a) \/ IsNaN(b) THEN NaN
    ELSE IF IsInf(a) THEN (IF IsInf(b) THEN NaN ELSE IF Sign(a) * (IF b < 0 THEN -1 ELSE 1) > 0 THEN PInf ELSE NInf)
    ELSE IF IsInf(b) THEN 0
    ELSE IF b = 0 THEN (IF a = 0 THEN NaN ELSE IF a > 0 THEN PInf ELSE NInf)
    ELSE FRound(Sign(a) * Sign(b) * RDiv(Abs(a) * SCALE, Abs(b)))
FLt(a, b) == ~IsNaN(a) /\ ~IsNaN(b) /\ a < b
FLe(a, b) == ~IsNaN(a) /\ ~IsNaN(b) /\ a <= b
FGt(a, b) == FLt(b, a)
FGe(a, b) == FLe(b, a)
FEq(a, b) == ~IsNaN(a) /\ ~IsNaN(b) /\ a = b
FMaxOf(a, b) == IF IsNaN(a) THEN b ELSE IF IsNaN(b) THEN a ELSE IF a >= b THEN a ELSE b
FMinOf(a, b) == IF IsNaN(a) THEN b ELSE IF IsNaN(b) THEN a ELSE IF a <= b THEN a ELSE b
FAbs(a) == IF IsNaN(a) THEN NaN ELSE Abs(a)
RECURSIVE ISqrtIn(_, _, _)
ISqrtIn(n, lo, hi) ==
    IF lo >= hi THEN lo
    ELSE LET mid == (lo + hi + 1) \div 2
         IN IF mid * mid <= n THEN ISqrtIn(n, mid, hi) ELSE ISqrtIn(n, lo, mid - 1)
FSqrt(a) ==
    IF IsNaN(a) THEN NaN
    ELSE IF a = PInf THEN PInf
    ELSE IF a < 0 THEN NaN
    ELSE ISqrtIn(a * SCALE, 0, 40000)
ExpIntTable == <<0, 1, 2, 7, 18, 50, 135, 368, 1000, 2718, 7389, 20086, 54598, 148413, 403429>>
ExpFrac(f) ==
    LET f2 == RDiv(f * f, SCALE)
        f3 == RDiv(f2 * f, SCALE)
        f4 == RDiv(f3 * f, SCALE)
        f5 == RDiv(f4 * f, SCALE)
    IN SCALE + f + RDiv(f2, 2) + RDiv(f3, 6) + RDiv(f4, 24) + RDiv(f5, 120)
ExpCalc(x) ==
    LET n == x \div SCALE
        f == x % SCALE
    IN FRound(MulMag(ExpIntTable[n + 9], ExpFrac(f)))
\* e^x for every finite x whose result is neither 0 nor +Inf at this width
ExpTable == [x \in (-8 * SCALE)..(7 * SCALE - 1) |-> ExpCalc(x)]
FExp(x) ==
    IF IsNaN(x) THEN NaN
    ELSE IF x = PInf THEN PInf
    ELSE IF x = NInf THEN 0
    ELSE IF x < -8 * SCALE THEN 0
    ELSE IF x >= 7 * SCALE THEN PInf
    ELSE ExpTable[x]
RECURSIVE LnIn(_, _, _)
LnIn(b, lo, hi) ==
    IF lo >= hi THEN lo
    ELSE LET mid == (lo + hi + 1) \div 2
         IN IF FLe(FExp(mid), b) THEN LnIn(b, mid, hi) ELSE LnIn(b, lo, mid - 1)
FLn(b) ==
    IF IsNaN(b) \/ b < 0 THEN NaN
    ELSE IF b = 0 THEN NInf
    ELSE IF b = PInf THEN PInf
    ELSE LnIn(b, -7 * SCALE, 7 * SCALE)
IsInteger(y) == IsFinite(y) /\ y % SCALE = 0
IsOddInteger(y) == IsInteger(y) /\ (y \div SCALE) % 2 = 1
FPowf(x, y) ==
    IF FEq(y, 0) \/ FEq(x, SCALE) THEN SCALE
    ELSE IF IsNaN(x) \/ IsNaN(y) THEN NaN
    ELSE IF x = 0 THEN (IF y < 0 THEN PInf ELSE 0)
    ELSE IF x = PInf THEN (IF y < 0 THEN 0 ELSE PInf)
    ELSE IF x = NInf THEN (IF y < 0 THEN 0 ELSE IF IsOddInteger(y) THEN NInf ELSE PInf)
    ELSE IF IsInf(y) THEN
        (IF Abs(x) = SCALE THEN SCALE
         ELSE IF (Abs(x) < SCALE) = (y = NInf) THEN PInf ELSE 0)
    ELSE IF x < 0 THEN
        (IF ~IsInteger(y) THEN NaN
         ELSE LET m == FExp(FMul(y, FLn(-x))) IN IF IsOddInteger(y) THEN FNeg(m) ELSE m)
    ELSE FExp(FMul(y, FLn(x)))

FClamp(x, lo, hi) == IF FLt(x, lo) THEN lo ELSE IF FGt(x, hi) THEN hi ELSE x

(***************************************************************************)
(* Bounds of the model                                                     *)
(***************************************************************************)
MaxIds == 3
MaxShards == 2
MaxClock == 1
MaxLimit == 2
MaxRetrievals == 2
DaysPerTick == 50
MaxShift == 2
MaxCallers == 2
MaxOps == 3
MaxSharedIds == 2

Ids == 1..MaxIds
Callers == 1..MaxCallers
Variants == {"single", "concurrent", "sharded"}

(***************************************************************************)
(* model.rs: DecayParams, AgentProfile, AgentState, Memory                 *)
(***************************************************************************)
DefaultAlpha == 800
DefaultBeta0 == 10
DecayParams_default == [alpha |-> DefaultAlpha, beta_0 |-> DefaultBeta0]

AgentProfile_default ==
    [capacity_factor |-> SCALE, interference_factor |-> 300, emotional_bias |-> 500,
     c_base |-> 100 * SCALE, rho |-> 100]
\* the profiles a store is built with: the default one, and one with a negative
\* reinforcement rate, a strong emotional bias and a small base capacity
Profiles ==
    { AgentProfile_default,
      [capacity_factor |-> SCALE, interference_factor |-> 300, emotional_bias |-> 2 * SCALE,
       c_base |-> SCALE, rho |-> -500] }

AgentState_default == [stress |-> 0, fatigue |-> 0, training_factor |-> 0]
States == { AgentState_default, [stress |-> SCALE, fatigue |-> 500, training_factor |-> 0] }

\* Arguments a caller passes to Memory::new, with the number of clock ticks by
\* which it then moves the public timestamp field (0: left as created).
PresetSeq ==
    << [vec |-> <<SCALE, 0>>, emotion |-> 800, age |-> 0, cw |-> SCALE, shift |-> 0],
       [vec |-> <<NaN, SCALE>>, emotion |-> 2 * SCALE, age |-> 0, cw |-> 500, shift |-> MaxShift],
       [vec |-> <<-SCALE, SCALE>>, emotion |-> -800, age |-> 25 * SCALE, cw |-> SCALE, shift |-> -1],
       [vec |-> <<-SCALE>>, emotion |-> -SCALE, age |-> 0, cw |-> 2 * SCALE, shift |-> 0] >>
Presets == { PresetSeq[i] : i \in DOMAIN PresetSeq }
\* the record the caller holding `id` builds
PresetOf(id) == PresetSeq[((id - 1) % Len(PresetSeq)) + 1]
\* arguments of Memory::new that lie outside the documented ranges of emotion
\* and capacity_weight, or are not numbers
NewArguments ==
    { [vec |-> <<SCALE, 0>>, emotion |-> NaN, age |-> 0, cw |-> 500, shift |-> 0],
      [vec |-> <<SCALE, 0>>, emotion |-> 500, age |-> 0, cw |-> NaN, shift |-> 0],
      [vec |-> <<SCALE, 0>>, emotion |-> -2 * SCALE, age |-> 0, cw |-> -500, shift |-> 0],
      [vec |-> <<SCALE, 0>>, emotion |-> 2 * SCALE, age |-> 0, cw |-> 2 * SCALE, shift |-> 0] }
Queries == { <<SCALE, 0>>, <<SCALE, SCALE>> }
\* the query lists handed to find_relevant_batch
Batches == { << <<SCALE, 0>>, <<SCALE, SCALE>> >>, << <<SCALE, 0>>, <<SCALE, 0>> >> }
Thresholds == { -100, 0, 10, SCALE, 1500, NaN }

Memory_new(id, semantic_vector, emotion, age_at_formation, capacity_weight, now) ==
    [id |-> id,
     semantic_vector |-> semantic_vector,
     emotion |-> FClamp(emotion, -SCALE, SCALE),
     age_at_formation |-> age_at_formation,
     capacity_weight |-> FClamp(capacity_weight, 0, SCALE),
     timestamp |-> now,
     last_retrieved |-> now,
     retrieval_count |-> 0,
     recall_history |-> << >>,
     memory_strength |-> SCALE,
     decay_params |-> DecayParams_default]

\* phase * decay * emo_bias * cap_comp * interference: the factors of the
\* retention product that precede memory_strength, from the record's
\* formation data k, the elapsed ticks dt, the agent state and the profile
retention_terms(k, dt, state, profile) ==
    LET t_days == dt * DaysPerTick * SCALE
        phase == FAdd(FDiv(SCALE, FAdd(SCALE,
                    FExp(FMul(profile.capacity_factor,
                              FSub(k.age_at_formation, profile.capacity_factor))))),
                      profile.interference_factor)
        beta == FMul(k.decay_params.beta_0,
                     FAdd(FAdd(SCALE, state.stress), state.fatigue))
        decay == FPowf(FAdd(SCALE, FMul(beta, t_days)), FNeg(k.decay_params.alpha))
        emo_bias == IF FGt(FAbs(k.emotion), profile.emotional_bias)
                    THEN FAdd(SCALE, FMul(profile.emotional_bias, FAbs(k.emotion)))
                    ELSE FAdd(SCALE, FMul(profile.emotional_bias, k.emotion))
        c_max == FMul(profile.c_base,
                      FAdd(FSub(SCALE, state.fatigue), state.training_factor))
        cap_comp == FMaxOf(FDiv(FMinOf(k.capacity_weight, c_max), profile.c_base), 0)
        interference == SCALE
    IN FMul(FMul(FMul(FMul(phase, decay), emo_bias), cap_comp), interference)

FormationOf(mem) ==
    [emotion |-> mem.emotion, age_at_formation |-> mem.age_at_formation,
     capacity_weight |-> mem.capacity_weight, decay_params |-> mem.decay_params]
Formations ==
    { FormationOf(Memory_new(0, p.vec, p.emotion, p.age, p.cw, 0)) : p \in Presets \cup NewArguments }
Elapsed == (-(MaxClock + MaxShift))..(MaxClock + MaxShift)

\* retention_terms, evaluated once for every combination the model's inputs allow
TermsTable ==
    [k \in Formations |-> [dt \in Elapsed |-> [st \in States |-> [pr \in Profiles |->
        retention_terms(k, dt, st, pr)]]]]

\* retention.clamp(0.0, 1.0) in place of .max(0.0).min(1.0): a NaN stays a NaN
calculate_retention_clamp(mem, now, state, profile) ==
    FClamp(FMul(TermsTable[FormationOf(mem)][now - mem.timestamp][state][profile],
                mem.memory_strength), 0, SCALE)

\* retention.min(1.0) alone: a negative product is returned as it is
calculate_retention_no_floor(mem, now, state, profile) ==
    FMinOf(FMul(TermsTable[FormationOf(mem)][now - mem.timestamp][state][profile],
                mem.memory_strength), SCALE)

calculate_retention(mem, now, state, profile) ==
    LET terms == TermsTable[FormationOf(mem)][now - mem.timestamp][state][profile]
        retention == FMul(terms, mem.memory_strength)
    IN CHOOSE r \in { FMinOf(FMaxOf(x, 0), SCALE) : x \in { retention } } : TRUE

\* a reinforcement that puts the timestamp at the front of the history
record_retrieval_front(mem, rho, now) ==
    [mem EXCEPT !.recall_history = << now >> \o @,
                !.retrieval_count = @ + 1,
                !.last_retrieved = now,
                !.memory_strength = FMul(@, FDiv(SCALE, FAdd(SCALE, rho)))]

\* Memory::record_retrieval is called by the stores and the tests but is not
\* defined in model.rs; modelled from the reinforcement contract.
record_retrieval(mem, rho, now) ==
    [mem EXCEPT !.recall_history = Append(@, now),
                !.retrieval_count = @ + 1,
                !.last_retrieved = now,
                !.memory_strength = FMul(@, FDiv(SCALE, FAdd(SCALE, rho)))]

(***************************************************************************)
(* Similarity kernels                                                      *)
(***************************************************************************)
RECURSIVE FSumFrom(_, _, _)
\* acc + s[i] + s[i+1] + ... , added left to right
FSumFrom(acc, s, i) == IF i > Len(s) THEN acc ELSE FSumFrom(FAdd(acc, s[i]), s, i + 1)

LANES == 8
SSE_LANES == 4

\* `width` accumulator lanes over the full chunks, the lanes then summed, the
\* remainder added element by element
LaneSum(prods, width) ==
    LET chunks == Len(prods) \div width
        lane(l) == FSumFrom(0, [c \in 1..chunks |-> prods[(c - 1) * width + l]], 1)
        reduced == FSumFrom(0, [l \in 1..width |-> lane(l)], 1)
    IN FSumFrom(reduced, prods, chunks * width + 1)

simd_utils_dot(a, b) ==
    IF Len(a) # Len(b) THEN 0
    ELSE LaneSum([i \in 1..Len(a) |-> FMul(a[i], b[i])], LANES)

simd_utils_norm(a) == FSqrt(LaneSum([i \in 1..Len(a) |-> FMul(a[i], a[i])], LANES))

\* the kernel without its test for a zero norm
simd_utils_cosine_similarity_unguarded(a, b) ==
    IF Len(a) = 0 \/ Len(b) = 0 \/ Len(a) # Len(b) THEN 0
    ELSE FDiv(simd_utils_dot(a, b), FMul(simd_utils_norm(a), simd_utils_norm(b)))

simd_utils_cosine_similarity(a, b) ==
    IF Len(a) = 0 \/ Len(b) = 0 \/ Len(a) # Len(b) THEN 0
    ELSE LET dot_product == simd_utils_dot(a, b)
             norm_a == simd_utils_norm(a)
             norm_b == simd_utils_norm(b)
         IN IF FEq(norm_a, 0) \/ FEq(norm_b, 0) THEN 0
            ELSE FDiv(dot_product, FMul(norm_a, norm_b))

scalar_cosine_similarity(a, b) ==
    IF Len(a) = 0 \/ Len(b) = 0 \/ Len(a) # Len(b) THEN 0
    ELSE LET dot_product == FSumFrom(0, [i \in 1..Len(a) |-> FMul(a[i], b[i])], 1)
             norm_a == FSqrt(FSumFrom(0, [i \in 1..Len(a) |-> FMul(a[i], a[i])], 1))
             norm_b == FSqrt(FSumFrom(0, [i \in 1..Len(b) |-> FMul(b[i], b[i])], 1))
         IN IF FEq(norm_a, 0) \/ FEq(norm_b, 0) THEN 0
            ELSE FDiv(dot_product, FMul(norm_a, norm_b))

cosine_similarity_simd(a, b) ==
    IF Len(a) = 0 \/ Len(b) = 0 \/ Len(a) # Len(b) THEN 0
    ELSE LET dot == LaneSum([i \in 1..Len(a) |-> FMul(a[i], b[i])], SSE_LANES)
             norm_a == LaneSum([i \in 1..Len(a) |-> FMul(a[i], a[i])], SSE_LANES)
             norm_b == LaneSum([i \in 1..Len(b) |-> FMul(b[i], b[i])], SSE_LANES)
         IN IF FEq(norm_a, 0) \/ FEq(norm_b, 0) THEN 0
            ELSE FDiv(dot, FMul(FSqrt(norm_a), FSqrt(norm_b)))

\* the kernel each store variant calls
kernel(v, a, b) ==
    CASE v = "single" -> simd_utils_cosine_similarity(a, b)
      [] v = "concurrent" -> scalar_cosine_similarity(a, b)
      [] v = "sharded" -> cosine_similarity_simd(a, b)

Vectors == { p.vec : p \in Presets }
\* the queries put to a store that has an index: one of the dimensionality of
\* the stored vectors, one of another dimensionality
FaissQueries == { <<SCALE, 0>>, <<SCALE>> }
\* kernel, evaluated once for every query and stored vector of the model
KernelTable ==
    [v \in Variants |-> [a \in Queries \cup FaissQueries |-> [b \in Vectors |-> kernel(v, a, b)]]]

cosine_similarity(v, a, b) == KernelTable[v][a][b]

(***************************************************************************)
(* The stores                                                              *)
(***************************************************************************)
VARIABLES
    variant,        \* which store type this instance is
    shards,         \* 0..n-1 -> (id -> Memory); n = 1 unless the store is sharded
    agent_profile,
    agent_state,
    clock,          \* Utc::now(), in ticks
    last,           \* the last call made on the store and what it returned
    track,          \* whether this behaviour records the history variable `gone`
    gone,           \* history: the ids removed or evicted and not added again since
    added,          \* history: id -> the record handed to the add that put it in the store
    callers,        \* caller -> the call it has in progress on the shared store
    held,           \* shard -> the caller holding that map's write guard, or 0
    ops,            \* the calls invoked so far on the shared store
    reinforced,     \* history: id -> reinforcements begun on the record since its add
    faiss_index,    \* Option<FaissIndex> of a MemoryStore built with the faiss feature
    disk            \* what the storage backend in use holds

vars == <<variant, shards, agent_profile, agent_state, clock, last, track, gone, added,
          callers, held, ops, reinforced, faiss_index, disk>>

EmptyMap == [i \in {} |-> 0]
\* a removal that leaves the record in the map
MapRemove_tombstone(m, id) == m

\* insert that keeps the value already stored under the key
MapInsert_keep_old(m, id, mem) ==
    [i \in (DOMAIN m) \cup {id} |-> IF i \in DOMAIN m THEN m[i] ELSE mem]

\* insert that carries the reinforcement fields of the value already stored
\* under the key over to the new value
MapInsert_keep_history(m, id, mem) ==
    [i \in (DOMAIN m) \cup {id} |->
        IF i # id THEN m[i]
        ELSE IF id \in DOMAIN m
             THEN [mem EXCEPT !.retrieval_count = m[id].retrieval_count,
                              !.recall_history = m[id].recall_history,
                              !.last_retrieved = m[id].last_retrieved,
                              !.memory_strength = m[id].memory_strength]
             ELSE mem]

\* HashMap::insert / DashMap::insert
MapInsert(m, id, mem) == [i \in (DOMAIN m) \cup {id} |-> IF i = id THEN mem ELSE m[i]]
MapRemove(m, id) == [i \in (DOMAIN m) \ {id} |-> m[i]]

\* the width of usize, scaled down, and the number of values it has
UsizeBits == 3
UsizeRange == 2 ^ UsizeBits

\* the shard chosen from the identifier without the cast to usize
shard_index_wide(sh, id) == id % Cardinality(DOMAIN sh)

\* (id.as_u128() as usize) % self.shards.len(); the other stores have one map
shard_index(sh, id) == (id % UsizeRange) % Cardinality(DOMAIN sh)

\* all live records of a store state, as one id -> Memory map
AllOf(sh) ==
    [id \in UNION { DOMAIN sh[s] : s \in DOMAIN sh } |->
        sh[CHOOSE s \in DOMAIN sh : id \in DOMAIN sh[s]][id]]
Live == AllOf(shards)

\* every order in which iterating a hash map can yield the keys in S
IterOrders(S) ==
    { o \in [1..Cardinality(S) -> S] : \A i, j \in 1..Cardinality(S) : i # j => o[i] # o[j] }

NoCall ==
    [op |-> "new", outcome |-> "ok", id |-> 0, query |-> << >>, limit |-> 0,
     queries |-> << >>, threshold |-> 0, now |-> 0, pre |-> << >>, result |-> << >>,
     batch |-> << >>, count |-> 0, state |-> AgentState_default,
     profile |-> AgentProfile_default, new_state |-> AgentState_default, kind |-> "none"]

\* what a caller of the shared store is doing: the call, its arguments, the
\* locals of the call and the position reached in its body
\* (swept is a history field: the ids the call's own retain passes removed)
IdleCall ==
    [pc |-> "idle", op |-> "none", id |-> 0, query |-> << >>, limit |-> 0, threshold |-> 0,
     state |-> AgentState_default, now |-> 0, cursor |-> 0, scored |-> << >>,
     top_n |-> << >>, i |-> 0, mem |-> << >>, before |-> 0, total |-> 0,
     result |-> << >>, outcome |-> "none", swept |-> {}]

\* a backend nothing was saved to: the file does not exist, the table has no row
NoSnapshot == [kind |-> "none", doc |-> << >>, saved |-> << >>]

\* Store::new(agent_profile, agent_state[, num_shards]) for a store of type v
new(v, profile, state) ==
    /\ variant = v
    /\ \E n \in 1..MaxShards :
          /\ n = (IF v = "sharded" THEN MaxShards ELSE 1)
          /\ shards = [s \in 0..(n - 1) |-> EmptyMap]
          /\ held = [s \in 0..(n - 1) |-> 0]
    /\ agent_profile = profile
    /\ agent_state = state
    /\ clock = 0
    /\ last = NoCall
    /\ gone = {}
    /\ added = EmptyMap
    /\ callers = [c \in Callers |-> IdleCall]
    /\ ops = 0
    /\ reinforced = [id \in Ids |-> 0]
    /\ faiss_index = << >>
    /\ disk = NoSnapshot

Init ==
    /\ track = FALSE
    /\ \E v \in Variants, profile \in Profiles, state \in States : new(v, profile, state)

\* a call made by the store's only caller runs from start to end with no other
\* call in progress; the history variable follows the records that left
\* the ids a completed call took out of the store: the one a successful
\* remove named, the ones a sweep dropped
left_by(call, after) ==
    IF call.op = "remove_memory" /\ call.outcome = "ok" THEN {call.id}
    ELSE IF call.op = "maintain" THEN (DOMAIN AllOf(call.pre)) \ (DOMAIN AllOf(after))
    ELSE {}
\* the ids a completed call put into the store
put_by(call) == IF call.op = "add_memory" THEN {call.id} ELSE {}

Sequential ==
    /\ gone' = IF track /\ last' # last
               THEN (gone \cup left_by(last', shards')) \ put_by(last')
               ELSE gone
    /\ added' = IF track /\ last' # last
                THEN [id \in ((DOMAIN added) \cup put_by(last')) \ left_by(last', shards') |->
                        IF id \in put_by(last') THEN last'.result[1] ELSE added[id]]
                ELSE added
    /\ UNCHANGED <<track, callers, held, ops, reinforced, faiss_index, disk>>

Tick ==
    /\ clock < MaxClock
    /\ clock' = clock + 1
    /\ UNCHANGED <<variant, shards, agent_profile, agent_state, last>>
    /\ Sequential

add_memory(memory) ==
    LET id == memory.id
        idx == shard_index(shards, id)
    IN /\ shards' = [shards EXCEPT ![idx] = MapInsert(@, id, memory)]
       /\ last' = [NoCall EXCEPT !.op = "add_memory", !.id = id, !.pre = shards,
                                 !.state = agent_state, !.profile = agent_profile, !.now = clock,
                                 !.result = << memory >>]
       /\ UNCHANGED <<variant, agent_profile, agent_state, clock>>

\* a caller builds a record with Memory::new, possibly moves its timestamp, and adds it
Built(id, p, now) ==
    [Memory_new(id, p.vec, p.emotion, p.age, p.cw, now) EXCEPT !.timestamp = now + p.shift]

AddNew ==
    /\ \E id \in Ids :
          add_memory(Built(id, PresetOf(id), clock))
    /\ Sequential

get_memory(id) ==
    LET idx == shard_index(shards, id)
    IN /\ last' = [NoCall EXCEPT !.op = "get_memory", !.id = id, !.pre = shards, !.state = agent_state, !.profile = agent_profile,
                                 !.now = clock,
                                 !.outcome = IF id \in DOMAIN shards[idx] THEN "some" ELSE "none",
                                 !.result = IF id \in DOMAIN shards[idx]
                                            THEN << shards[idx][id] >> ELSE << >>]
       /\ UNCHANGED <<variant, shards, agent_profile, agent_state, clock>>

Get == (\E id \in Ids : get_memory(id)) /\ Sequential

\* the removal answering Ok(()) whether or not the id was there
remove_outcome_ignore(m, id) == "ok"

\* .remove(id).map(|_| ()).ok_or_else(|| MemoryError::not_found(id))
remove_outcome(m, id) == IF id \in DOMAIN m THEN "ok" ELSE "NotFound"

remove_memory(id) ==
    LET idx == shard_index(shards, id)
    IN /\ shards' = [shards EXCEPT ![idx] = MapRemove(@, id)]
       /\ last' = [NoCall EXCEPT !.op = "remove_memory", !.id = id, !.pre = shards, !.state = agent_state, !.profile = agent_profile,
                                 !.now = clock,
                                 !.outcome = remove_outcome(shards[idx], id)]
       /\ UNCHANGED <<variant, agent_profile, agent_state, clock>>

Remove == (\E id \in Ids : remove_memory(id)) /\ Sequential

\* an update that replaces one field of the state and keeps the others
update_agent_state_merge(state) ==
    /\ agent_state' = [agent_state EXCEPT !.stress = state.stress]
    /\ last' = [NoCall EXCEPT !.op = "update_agent_state", !.new_state = state, !.pre = shards,
                              !.state = agent_state, !.profile = agent_profile, !.now = clock]
    /\ UNCHANGED <<variant, shards, agent_profile, clock>>

update_agent_state(state) ==
    /\ agent_state' = state
    /\ last' = [NoCall EXCEPT !.op = "update_agent_state", !.new_state = state, !.pre = shards, !.state = agent_state, !.profile = agent_profile, !.now = clock]
    /\ UNCHANGED <<variant, shards, agent_profile, clock>>

UpdateState == (\E s \in States : update_agent_state(s)) /\ Sequential

\* the orders in which find_relevant can meet the records: the shards in index
\* order, the records of one shard in any order
ScanOrders(sh) ==
    { o \in IterOrders(DOMAIN AllOf(sh)) :
        \A i, j \in DOMAIN o : i < j => shard_index(sh, o[i]) <= shard_index(sh, o[j]) }

\* let similarity = cosine_similarity(query, &mem.semantic_vector);
\* let retention = mem.calculate_retention(now, state, profile); similarity * retention
score_of(v, mem, query_vector, now, state, profile) ==
    CHOOSE score \in { FMul(similarity, retention) :
                          similarity \in { cosine_similarity(v, query_vector, mem.semantic_vector) },
                          retention \in { calculate_retention(mem, now, state, profile) } } : TRUE

\* the score of every record of the id -> Memory map `all`, by id
scores_of(v, all, query_vector, now, state, profile) ==
    [id \in DOMAIN all |-> score_of(v, all[id], query_vector, now, state, profile)]

\* the (id, score) pairs in the order the scan meets the records
score_all(order, scores) == [i \in DOMAIN order |-> [id |-> order[i], score |-> scores[order[i]]]]

\* b.1.partial_cmp(&a.1).unwrap_or(Equal) == Less
is_less(a, b) == FLt(b.score, a.score)

RECURSIVE insert_tail(_, _)
\* x appended to the sorted run s and shifted left while it is_less than its
\* left neighbour
insert_tail(s, x) ==
    IF Len(s) > 0 /\ is_less(x, s[Len(s)])
    THEN Append(insert_tail(SubSeq(s, 1, Len(s) - 1), x), s[Len(s)])
    ELSE Append(s, x)

RECURSIVE sort_from(_, _, _)
sort_from(done, s, i) ==
    IF i > Len(s) THEN done ELSE sort_from(insert_tail(done, s[i]), s, i + 1)

\* slice::sort_by on a short slice: a stable insertion sort
sort_by(s) == sort_from(<< >>, s, 1)

\* a cut that lets one entry more than n through
take_one_more(s, n) == SubSeq(s, 1, IF n + 1 < Len(s) THEN n + 1 ELSE Len(s))

\* scored.into_iter().take(limit)
take(s, n) == SubSeq(s, 1, IF n < Len(s) THEN n ELSE Len(s))

\* the reinforcement made with a rate of 0.0 in place of the profile's rho
reinforce_one_unweighted(sh, id, idx, rho, now) ==
    IF id \in DOMAIN sh[idx]
    THEN [sh EXCEPT ![idx][id] = record_retrieval(@, 0, now)]
    ELSE sh

\* the reinforcement made with the profile's rho negated
reinforce_one_negated(sh, id, idx, rho, now) ==
    IF id \in DOMAIN sh[idx]
    THEN [sh EXCEPT ![idx][id] = record_retrieval(@, FNeg(rho), now)]
    ELSE sh

\* if let Some(mem) = memories.get_mut(id) { mem.record_retrieval(rho) }
reinforce_one(sh, id, idx, rho, now) ==
    IF id \in DOMAIN sh[idx]
    THEN [sh EXCEPT ![idx][id] = record_retrieval(@, rho, now)]
    ELSE sh

\* the loop leaving after its first iteration
reinforce_first_only(sh, top_n, i, rho, now) ==
    IF Len(top_n) = 0 THEN sh
    ELSE reinforce_one(sh, top_n[1].id, shard_index(sh, top_n[1].id), rho, now)

RECURSIVE reinforce_from(_, _, _, _, _)
\* for (id, _) in &top_n { ... }
reinforce_from(sh, top_n, i, rho, now) ==
    IF i > Len(top_n) THEN sh
    ELSE reinforce_from(reinforce_one(sh, top_n[i].id, shard_index(sh, top_n[i].id), rho, now),
                        top_n, i + 1, rho, now)

\* filter_map(|(id, score)| memories.get(&id).map(|mem| (score, mem.clone())))
collect_one(sh, entry, idx) ==
    IF entry.id \in DOMAIN sh[idx]
    THEN << [score |-> entry.score, mem |-> sh[idx][entry.id]] >>
    ELSE << >>

RECURSIVE collect_from(_, _, _)
collect_from(sh, top_n, i) ==
    IF i > Len(top_n) THEN << >>
    ELSE collect_one(sh, top_n[i], shard_index(sh, top_n[i].id)) \o collect_from(sh, top_n, i + 1)

\* the store after the reinforcement loop, with the vector the call returns
collected(after, top_n) == [shards |-> after, result |-> collect_from(after, top_n, 1)]

\* the copies taken before the reinforcement loop instead of after it
collect_then_reinforce(sh, top_n, rho, now) ==
    [shards |-> reinforce_from(sh, top_n, 1, rho, now), result |-> collect_from(sh, top_n, 1)]

\* the part of find_relevant after the sort
reinforce_and_collect(sh, top_n, rho, now) ==
    collected(reinforce_from(sh, top_n, 1, rho, now), top_n)

\* the part of find_relevant after the scoring pass
rank_and_reinforce(sh, scored, limit, rho, now) ==
    reinforce_and_collect(sh, take(sort_by(scored), limit), rho, now)

\* what find_relevant can do to the store sh and return, over every order in
\* which the scan can meet the records
outcomes_of(sh, scores, limit, rho, now) ==
    { rank_and_reinforce(sh, score_all(order, scores), limit, rho, now) :
        order \in ScanOrders(sh) }

find_outcomes(v, sh, query_vector, limit, now, state, profile) ==
    outcomes_of(sh, scores_of(v, AllOf(sh), query_vector, now, state, profile),
                limit, profile.rho, now)

RECURSIVE SumOver(_, _)
SumOver(f, S) == IF S = {} THEN 0 ELSE LET x == CHOOSE x \in S : TRUE IN f[x] + SumOver(f, S \ {x})

\* the retrievals recorded on the live records
Retrievals(all) == SumOver([id \in DOMAIN all |-> all[id].retrieval_count], DOMAIN all)
Min(a, b) == IF a < b THEN a ELSE b
\* the bound on retrievals leaves room for `calls` queries of up to `limit` records
RoomFor(all, calls, limit) ==
    Retrievals(all) + calls * Min(limit, Cardinality(DOMAIN all)) <= MaxRetrievals

find_returns(r, query_vector, limit) ==
    /\ shards' = r.shards
    /\ last' = [NoCall EXCEPT !.op = "find_relevant", !.query = query_vector,
                              !.limit = limit, !.pre = shards, !.state = agent_state, !.profile = agent_profile, !.now = clock,
                              !.result = r.result]
    /\ UNCHANGED <<variant, agent_profile, agent_state, clock>>

find_relevant(query_vector, limit) ==
    /\ RoomFor(Live, 1, limit)
    /\ \E r \in find_outcomes(variant, shards, query_vector, limit, clock,
                           agent_state, agent_profile) :
        find_returns(r, query_vector, limit)

Find == (\E q \in Queries, limit \in 0..MaxLimit : find_relevant(q, limit)) /\ Sequential

\* the second call of a batch, made on the store the first call left
batch_second(v, r1, q2, limit, now, state, profile) ==
    { [shards |-> r2.shards, batch |-> << r1.result, r2.result >>] :
        r2 \in find_outcomes(v, r1.shards, q2, limit, now, state, profile) }

\* a batch whose second query is run on the store as the batch found it
batch_outcomes_isolated(v, sh, queries, limit, now, state, profile) ==
    { [shards |-> r2.shards, batch |-> << r1.result, r2.result >>] :
        r1 \in find_outcomes(v, sh, queries[1], limit, now, state, profile),
        r2 \in find_outcomes(v, sh, queries[2], limit, now, state, profile) }

\* query_vectors.iter().map(|q| self.find_relevant(q, limit)).collect()
batch_outcomes(v, sh, queries, limit, now, state, profile) ==
    UNION { batch_second(v, r1, queries[2], limit, now, state, profile) :
              r1 \in find_outcomes(v, sh, queries[1], limit, now, state, profile) }

batch_returns(r, queries, limit) ==
    /\ shards' = r.shards
    /\ last' = [NoCall EXCEPT !.op = "find_relevant_batch", !.queries = queries,
                              !.limit = limit, !.pre = shards, !.state = agent_state, !.profile = agent_profile, !.now = clock,
                              !.batch = r.batch]
    /\ UNCHANGED <<variant, agent_profile, agent_state, clock>>

\* the store types that have a find_relevant_batch method: MemoryStore and
\* ConcurrentMemoryStore; ShardedMemoryStore has none
BatchVariants == {"single", "concurrent"}

find_relevant_batch(queries, limit) ==
    /\ variant \in BatchVariants
    /\ RoomFor(Live, Len(queries), limit)
    /\ \E r \in batch_outcomes(variant, shards, queries, limit, clock,
                            agent_state, agent_profile) :
        batch_returns(r, queries, limit)

FindBatch ==
    (\E queries \in Batches, limit \in 1..MaxLimit : find_relevant_batch(queries, limit)) /\ Sequential

\* the range check with its lower end left out
threshold_ok_upper(t) == FLe(t, SCALE)

\* (0.0..=1.0).contains(&retention_threshold)
threshold_ok(t) == FLe(0, t) /\ FLe(t, SCALE)

\* the sweep keeping only the records whose retention is above the threshold
retain_strict(m, threshold, now, state, profile) ==
    [id \in { i \in DOMAIN m :
                FGt(calculate_retention(m[i], now, state, profile), threshold) } |-> m[id]]

\* the sweep recording a retrieval on every record it keeps
retain_reinforcing(m, threshold, now, state, profile) ==
    [id \in { i \in DOMAIN m :
                FGe(calculate_retention(m[i], now, state, profile), threshold) } |->
        record_retrieval(m[id], profile.rho, now)]

\* the sweep whose retention evaluation writes its value into the record
retain_storing(m, threshold, now, state, profile) ==
    [id \in { i \in DOMAIN m :
                FGe(calculate_retention(m[i], now, state, profile), threshold) } |->
        [m[id] EXCEPT !.memory_strength = calculate_retention(m[id], now, state, profile)]]

\* HashMap::retain / DashMap::retain with the maintenance predicate
retain(m, threshold, now, state, profile) ==
    [id \in { i \in DOMAIN m :
                FGe(calculate_retention(m[i], now, state, profile), threshold) } |-> m[id]]

\* the count of the last shard swept in place of the running total
total_pruned_last(pruned) == pruned[Cardinality(DOMAIN pruned) - 1]

\* total_pruned += before - shard.len(), over the shards
total_pruned(pruned) == SumOver(pruned, DOMAIN pruned)

maintain(retention_threshold) ==
    IF ~threshold_ok(retention_threshold)
    THEN /\ last' = [NoCall EXCEPT !.op = "maintain", !.threshold = retention_threshold,
                                   !.pre = shards, !.state = agent_state, !.profile = agent_profile, !.now = clock, !.outcome = "panic"]
         /\ UNCHANGED <<variant, shards, agent_profile, agent_state, clock>>
    ELSE LET now == clock
             kept == [s \in DOMAIN shards |->
                        retain(shards[s], retention_threshold, now, agent_state, agent_profile)]
             pruned == [s \in DOMAIN shards |->
                        Cardinality(DOMAIN shards[s]) - Cardinality(DOMAIN kept[s])]
         IN /\ shards' = kept
            /\ last' = [NoCall EXCEPT !.op = "maintain", !.threshold = retention_threshold,
                                      !.pre = shards, !.state = agent_state, !.profile = agent_profile, !.now = now,
                                      !.count = total_pruned(pruned)]
            /\ UNCHANGED <<variant, agent_profile, agent_state, clock>>

Maintain == (\E t \in Thresholds : maintain(t)) /\ Sequential

Next ==
    \/ Tick
    \/ AddNew
    \/ Get
    \/ Remove
    \/ UpdateState
    \/ Find
    \/ FindBatch
    \/ Maintain

Spec == Init /\ [][Next]_vars

\* the values a caller holding the &mut Memory of get_memory_mut assigns to
\* its memory_strength
HandleWrites == { 2 * SCALE }

\* MemoryStore::get_memory_mut, and the caller's write through the handle it returns
get_memory_mut(id, w) ==
    LET idx == shard_index(shards, id)
        found == id \in DOMAIN shards[idx]
    IN /\ variant = "single"
       /\ shards' = IF found THEN [shards EXCEPT ![idx][id].memory_strength = w] ELSE shards
       /\ last' = [NoCall EXCEPT !.op = "get_memory_mut", !.id = id, !.pre = shards,
                                 !.state = agent_state, !.profile = agent_profile, !.now = clock,
                                 !.outcome = IF found THEN "some" ELSE "none"]
       /\ UNCHANGED <<variant, agent_profile, agent_state, clock>>

GetMut == (\E id \in Ids, w \in HandleWrites : get_memory_mut(id, w)) /\ Sequential

\* the single-threaded store with callers that also use get_memory_mut
HandleInit ==
    /\ track = FALSE
    /\ \E state \in States : new("single", AgentProfile_default, state)

\* the calls of such a caller, all made within one tick of the clock
HandleNext ==
    \/ AddNew
    \/ Get
    \/ GetMut
    \/ Remove
    \/ UpdateState
    \/ Find
    \/ FindBatch
    \/ Maintain

HandleSpec == HandleInit /\ [][HandleNext]_vars

\* the same store and calls, with the history of adds and removals recorded
TrackedInit ==
    /\ track = TRUE
    /\ \E v \in Variants, state \in States : new(v, AgentProfile_default, state)

TrackedSpec == TrackedInit /\ [][Next]_vars


(***************************************************************************)
(* The concurrent and the sharded store shared by several callers          *)
(*                                                                         *)
(* Every DashMap method locks the map for the time of the call; get_mut    *)
(* returns a guard that keeps the map write-locked until it is dropped.    *)
(* Each step below is one such method call, or the use and drop of a       *)
(* guard; the steps of different callers interleave freely.                *)
(***************************************************************************)
SharedVariants == {"concurrent", "sharded"}
SharedIds == 1..MaxSharedIds
SharedQueries == { <<SCALE, 0>> }
SharedThresholds == { 10 }

\* a map whose lock is asked for without regard to the guard another caller holds
lock_ignored(h, u) == TRUE

\* the map u can be locked: no caller holds a guard on it
lock_free(h, u) == h[u] = 0

\* a guard that is never dropped
release_leak(h, u) == h

\* the guard on map u is dropped
release(h, u) == [h EXCEPT ![u] = 0]

\* a lookup that creates the entry it does not find
get_mut_or_insert(m, id, now) ==
    IF id \in DOMAIN m THEN [map |-> m, entry |-> << m[id] >>]
    ELSE [map |-> MapInsert(m, id, Built(id, PresetOf(id), now)),
          entry |-> << Built(id, PresetOf(id), now) >>]

\* DashMap::get_mut(id): Some(guard on the entry) or None; the map is not changed
get_mut(m, id, now) ==
    [map |-> m, entry |-> IF id \in DOMAIN m THEN << m[id] >> ELSE << >>]

Others == <<variant, agent_profile, clock, last, track, added, faiss_index, disk>>

\* caller c starts a call on the shared store
Invoke(c) ==
    /\ callers[c].pc = "idle"
    /\ ops < MaxOps
    /\ ops' = ops + 1
    /\ \E call \in
            { [IdleCall EXCEPT !.pc = "add", !.op = "add_memory", !.id = id,
                               !.mem = Built(id, PresetOf(id), clock)] : id \in SharedIds }
            \cup { [IdleCall EXCEPT !.pc = "get", !.op = "get_memory", !.id = id] : id \in SharedIds }
            \cup { [IdleCall EXCEPT !.pc = "remove", !.op = "remove_memory", !.id = id] :
                      id \in SharedIds }
            \cup { [IdleCall EXCEPT !.pc = "update", !.op = "update_agent_state", !.state = st] :
                      st \in States }
            \cup { [IdleCall EXCEPT !.pc = "scan", !.op = "find_relevant", !.query = q,
                                    !.limit = limit, !.now = clock] :
                      q \in SharedQueries, limit \in 1..MaxLimit }
            \cup { [IdleCall EXCEPT !.pc = "len_before", !.op = "maintain", !.threshold = t,
                                    !.now = clock] : t \in SharedThresholds } :
          callers' = [callers EXCEPT ![c] = call]
    /\ UNCHANGED <<shards, agent_state, held, gone, reinforced>>
    /\ UNCHANGED Others

\* self.memories.insert(id, memory) / self.shards[idx].insert(id, memory)
DoAdd(c) ==
    LET me == callers[c]
        u == shard_index(shards, me.id)
    IN /\ me.pc = "add"
       /\ lock_free(held, u)
       /\ shards' = [shards EXCEPT ![u] = MapInsert(@, me.id, me.mem)]
       /\ reinforced' = [reinforced EXCEPT ![me.id] = 0]
       /\ gone' = gone \ {me.id}
       /\ callers' = [callers EXCEPT ![c] = [me EXCEPT !.pc = "idle", !.outcome = "ok"]]
       /\ UNCHANGED <<agent_state, held, ops>>
       /\ UNCHANGED Others

\* self.memories.get(id).map(|m| m.clone())
DoGet(c) ==
    LET me == callers[c]
        u == shard_index(shards, me.id)
    IN /\ me.pc = "get"
       /\ lock_free(held, u)
       /\ callers' = [callers EXCEPT ![c] =
              [me EXCEPT !.pc = "idle",
                         !.outcome = IF me.id \in DOMAIN shards[u] THEN "some" ELSE "none",
                         !.result = IF me.id \in DOMAIN shards[u]
                                    THEN << shards[u][me.id] >> ELSE << >>]]
       /\ UNCHANGED <<shards, agent_state, held, ops, gone, reinforced>>
       /\ UNCHANGED Others

\* self.memories.remove(id).map(|_| ()).ok_or_else(..)
DoRemove(c) ==
    LET me == callers[c]
        u == shard_index(shards, me.id)
    IN /\ me.pc = "remove"
       /\ lock_free(held, u)
       /\ shards' = [shards EXCEPT ![u] = MapRemove(@, me.id)]
       /\ gone' = IF me.id \in DOMAIN shards[u] THEN gone \cup {me.id} ELSE gone
       /\ callers' = [callers EXCEPT ![c] =
              [me EXCEPT !.pc = "idle", !.outcome = remove_outcome(shards[u], me.id)]]
       /\ UNCHANGED <<agent_state, held, ops, reinforced>>
       /\ UNCHANGED Others

\* self.agent_state = state
DoUpdate(c) ==
    LET me == callers[c]
    IN /\ me.pc = "update"
       /\ agent_state' = me.state
       /\ callers' = [callers EXCEPT ![c] = [me EXCEPT !.pc = "idle", !.outcome = "ok"]]
       /\ UNCHANGED <<shards, held, ops, gone, reinforced>>
       /\ UNCHANGED Others

\* the scoring pass over the next map: its records, in the order its iterator
\* yields them, scored with the agent state of that moment; after the last
\* map the list is sorted and cut to `limit`
Scan(c) ==
    LET me == callers[c]
        u == me.cursor
        last_map == u + 1 = Cardinality(DOMAIN shards)
    IN /\ me.pc = "scan"
       /\ lock_free(held, u)
       /\ \E order \in IterOrders(DOMAIN shards[u]),
             scores \in { scores_of(variant, shards[u], me.query, me.now,
                                    agent_state, agent_profile) } :
             \E scored \in { me.scored \o score_all(order, scores) } :
                \E top_n \in { take(sort_by(scored), me.limit) } :
                   callers' = [callers EXCEPT ![c] =
                      IF ~last_map THEN [me EXCEPT !.cursor = u + 1, !.scored = scored]
                      ELSE IF Len(top_n) = 0
                           THEN [me EXCEPT !.scored = scored, !.pc = "idle", !.outcome = "ok"]
                           ELSE [me EXCEPT !.scored = scored, !.top_n = top_n, !.i = 1,
                                           !.pc = "get_mut"]]
       /\ UNCHANGED <<shards, agent_state, held, ops, gone, reinforced>>
       /\ UNCHANGED Others

\* the loop over top_n moves to its next entry, or the call to its copying pass
next_entry(me) ==
    IF me.i < Len(me.top_n) THEN [me EXCEPT !.i = @ + 1, !.pc = "get_mut", !.mem = << >>]
    ELSE [me EXCEPT !.i = 1, !.pc = "collect", !.mem = << >>]

\* if let Some(mut mem) = self.memories.get_mut(id): the guard is taken
GetMutStep(c) ==
    LET me == callers[c]
        id == me.top_n[me.i].id
        u == shard_index(shards, id)
        got == get_mut(shards[u], id, me.now)
    IN /\ me.pc = "get_mut"
       /\ lock_free(held, u)
       /\ shards' = [shards EXCEPT ![u] = got.map]
       /\ IF got.entry # << >>
          THEN /\ held' = [held EXCEPT ![u] = c]
               /\ reinforced' = [reinforced EXCEPT ![id] = @ + 1]
               /\ callers' = [callers EXCEPT ![c] =
                      [me EXCEPT !.pc = "record", !.mem = got.entry[1]]]
          ELSE /\ callers' = [callers EXCEPT ![c] = next_entry(me)]
               /\ UNCHANGED <<held, reinforced>>
       /\ UNCHANGED <<agent_state, ops, gone>>
       /\ UNCHANGED Others

\* { mem.record_retrieval(self.agent_profile.rho); } and the guard is dropped
Record(c) ==
    LET me == callers[c]
        id == me.top_n[me.i].id
        u == shard_index(shards, id)
    IN /\ me.pc = "record"
       /\ shards' = [shards EXCEPT ![u][id] = record_retrieval(me.mem, agent_profile.rho, me.now)]
       /\ held' = release(held, u)
       /\ callers' = [callers EXCEPT ![c] = next_entry(me)]
       /\ UNCHANGED <<agent_state, ops, gone, reinforced>>
       /\ UNCHANGED Others

\* filter_map(|(id, score)| self.memories.get(&id).map(|mem| (score, mem.clone()))),
\* one entry of top_n
Collect(c) ==
    LET me == callers[c]
        entry == me.top_n[me.i]
        u == shard_index(shards, entry.id)
        result == me.result \o collect_one(shards, entry, u)
    IN /\ me.pc = "collect"
       /\ lock_free(held, u)
       /\ callers' = [callers EXCEPT ![c] =
              IF me.i < Len(me.top_n) THEN [me EXCEPT !.i = @ + 1, !.result = result]
              ELSE [me EXCEPT !.pc = "idle", !.outcome = "ok", !.result = result]]
       /\ UNCHANGED <<shards, agent_state, held, ops, gone, reinforced>>
       /\ UNCHANGED Others

\* let before = self.memories.len(); / let before = shard.len();
LenBefore(c) ==
    LET me == callers[c]
        u == me.cursor
    IN /\ me.pc = "len_before"
       /\ lock_free(held, u)
       /\ callers' = [callers EXCEPT ![c] =
              [me EXCEPT !.pc = "retain", !.before = Cardinality(DOMAIN shards[u])]]
       /\ UNCHANGED <<shards, agent_state, held, ops, gone, reinforced>>
       /\ UNCHANGED Others

\* self.memories.retain(..) / shard.retain(..)
Retain(c) ==
    LET me == callers[c]
        u == me.cursor
        kept == retain(shards[u], me.threshold, me.now, agent_state, agent_profile)
    IN /\ me.pc = "retain"
       /\ lock_free(held, u)
       /\ shards' = [shards EXCEPT ![u] = kept]
       /\ gone' = gone \cup ((DOMAIN shards[u]) \ (DOMAIN kept))
       /\ callers' = [callers EXCEPT ![c] =
              [me EXCEPT !.pc = "len_after",
                         !.swept = @ \cup ((DOMAIN shards[u]) \ (DOMAIN kept))]]
       /\ UNCHANGED <<agent_state, held, ops, reinforced>>
       /\ UNCHANGED Others

\* before - self.memories.len() / total_pruned += before - shard.len(): a usize
\* subtraction, which panics or wraps when the map has grown past `before`
LenAfter(c) ==
    LET me == callers[c]
        u == me.cursor
        len == Cardinality(DOMAIN shards[u])
        last_map == u + 1 = Cardinality(DOMAIN shards)
    IN /\ me.pc = "len_after"
       /\ lock_free(held, u)
       /\ IF me.before < len
          THEN \E build \in {"panic", "wrapped"} :
                 callers' = [callers EXCEPT ![c] = [me EXCEPT !.pc = "idle", !.outcome = build]]
          ELSE callers' = [callers EXCEPT ![c] =
                 IF last_map
                 THEN [me EXCEPT !.pc = "idle", !.outcome = "ok",
                                 !.total = @ + (me.before - len)]
                 ELSE [me EXCEPT !.pc = "len_before", !.cursor = u + 1,
                                 !.total = @ + (me.before - len)]]
       /\ UNCHANGED <<shards, agent_state, held, ops, gone, reinforced>>
       /\ UNCHANGED Others

\* the next step of the call caller c has in progress
Step(c) ==
    \/ DoAdd(c)
    \/ DoGet(c)
    \/ DoRemove(c)
    \/ DoUpdate(c)
    \/ Scan(c)
    \/ GetMutStep(c)
    \/ Record(c)
    \/ Collect(c)
    \/ LenBefore(c)
    \/ Retain(c)
    \/ LenAfter(c)

SharedInit ==
    /\ track = TRUE
    /\ \E v \in SharedVariants : new(v, AgentProfile_default, AgentState_default)

SharedNext ==
    \/ \E c \in Callers : Invoke(c)
    \/ \E c \in Callers : DoAdd(c)
    \/ \E c \in Callers : DoGet(c)
    \/ \E c \in Callers : DoRemove(c)
    \/ \E c \in Callers : DoUpdate(c)
    \/ \E c \in Callers : Scan(c)
    \/ \E c \in Callers : GetMutStep(c)
    \/ \E c \in Callers : Record(c)
    \/ \E c \in Callers : Collect(c)
    \/ \E c \in Callers : LenBefore(c)
    \/ \E c \in Callers : Retain(c)
    \/ \E c \in Callers : LenAfter(c)

SharedSpec == SharedInit /\ [][SharedNext]_vars

\* every caller's thread is scheduled again and again: a step that stays
\* possible is eventually taken
FairSharedSpec == SharedSpec /\ \A c \in Callers : WF_vars(Step(c))

(***************************************************************************)
(* The similarity kernels called on their own, as the property tests call  *)
(* them: similarity(a, b) and similarity(b, a) for a pair of vectors.      *)
(***************************************************************************)
MaxDim == 2
\* 0.0, a value whose square underflows to 0.0, 1.0, -0.5, a value whose
\* square overflows, and NaN
KernelComponents == {0, 1, SCALE, -500, 40 * SCALE, NaN}
\* vectors long enough to fill the accumulator lanes of the SIMD kernels
LongVectors ==
    { [i \in 1..LANES |-> 0], [i \in 1..LANES |-> SCALE],
      [i \in 1..(LANES + 1) |-> IF i = 1 THEN -SCALE ELSE 500],
      [i \in 1..(SSE_LANES + 1) |-> SCALE] }
KernelVectors == (UNION { [1..n -> KernelComponents] : n \in 0..MaxDim }) \cup LongVectors

\* let ab = cosine_similarity(&a, &b); let ba = cosine_similarity(&b, &a);
\* with the kernel of store type v, on the pair of vectors drawn
Compare(v) ==
    /\ last.op = "vectors"
    /\ last' = [op |-> "cosine_similarity", kernel |-> v, a |-> last.a, b |-> last.b,
                ab |-> kernel(v, last.a, last.b), ba |-> kernel(v, last.b, last.a)]
    /\ UNCHANGED <<variant, shards, agent_profile, agent_state, clock, track, gone, added,
                   callers, held, ops, reinforced, faiss_index, disk>>

\* a pair of vectors is drawn
KernelInit ==
    /\ track = FALSE
    /\ variant = "single"
    /\ shards = [s \in {0} |-> EmptyMap]
    /\ held = [s \in {0} |-> 0]
    /\ agent_profile = AgentProfile_default
    /\ agent_state = AgentState_default
    /\ clock = 0
    /\ \E a \in KernelVectors, b \in KernelVectors : last = [op |-> "vectors", a |-> a, b |-> b]
    /\ gone = {}
    /\ added = EmptyMap
    /\ callers = [c \in Callers |-> IdleCall]
    /\ ops = 0
    /\ reinforced = [id \in Ids |-> 0]
    /\ faiss_index = << >>
    /\ disk = NoSnapshot

KernelNext == \E v \in Variants : Compare(v)

KernelSpec == KernelInit /\ [][KernelNext]_vars

(***************************************************************************)
(* Persistence: the Serialize / Deserialize impls of MemoryStore           *)
(* (store.rs) and the storage backends (storage.rs).  A snapshot is a JSON *)
(* document.  serde_json writes a float that is NaN or infinite as null    *)
(* and refuses to read null as a float; every other value is read back as  *)
(* it was written.  A JSON number is modelled as << x >>, null as << >>.    *)
(***************************************************************************)
DATA_FORMAT_VERSION == 1

to_json_f32(x) == IF IsFinite(x) THEN << x >> ELSE << >>
from_json_f32(j) == j[1]

\* #[derive(Serialize)] of AgentProfile / AgentState / DecayParams: all fields floats
to_json_floats(rec) == [f \in DOMAIN rec |-> to_json_f32(rec[f])]
from_json_floats(j) == [f \in DOMAIN j |-> from_json_f32(j[f])]
floats_parse(j) == \A f \in DOMAIN j : j[f] # << >>

\* #[derive(Serialize, Deserialize)] of Memory
to_json_Memory(mem) ==
    [mem EXCEPT !.semantic_vector = [i \in DOMAIN mem.semantic_vector |->
                                        to_json_f32(mem.semantic_vector[i])],
                !.emotion = to_json_f32(@),
                !.age_at_formation = to_json_f32(@),
                !.capacity_weight = to_json_f32(@),
                !.memory_strength = to_json_f32(@),
                !.decay_params = to_json_floats(@)]
Memory_parses(j) ==
    /\ \A i \in DOMAIN j.semantic_vector : j.semantic_vector[i] # << >>
    /\ j.emotion # << >>
    /\ j.age_at_formation # << >>
    /\ j.capacity_weight # << >>
    /\ j.memory_strength # << >>
    /\ floats_parse(j.decay_params)
from_json_Memory(j) ==
    [j EXCEPT !.semantic_vector = [i \in DOMAIN j.semantic_vector |->
                                      from_json_f32(j.semantic_vector[i])],
              !.emotion = from_json_f32(@),
              !.age_at_formation = from_json_f32(@),
              !.capacity_weight = from_json_f32(@),
              !.memory_strength = from_json_f32(@),
              !.decay_params = from_json_floats(@)]

\* StoredData / MemoryStoreData built from the fields of the store
StoredData(memories, profile, state) ==
    [memories |-> memories, agent_profile |-> profile, agent_state |-> state]

\* the JSON document of a snapshot; version is << n >>, or << >> for a
\* document without the field
to_json(data, version) ==
    [version |-> version,
     memories |-> [id \in DOMAIN data.memories |-> to_json_Memory(data.memories[id])],
     agent_profile |-> to_json_floats(data.agent_profile),
     agent_state |-> to_json_floats(data.agent_state)]

\* serde_json::from_reader / from_str into StoredData or MemoryStoreData;
\* #[serde(default)] version: a document without the field reads as version 0
from_json(doc) ==
    IF /\ \A id \in DOMAIN doc.memories : Memory_parses(doc.memories[id])
       /\ floats_parse(doc.agent_profile)
       /\ floats_parse(doc.agent_state)
    THEN [ok |-> TRUE,
          version |-> IF doc.version = << >> THEN 0 ELSE doc.version[1],
          data |-> StoredData([id \in DOMAIN doc.memories |-> from_json_Memory(doc.memories[id])],
                              from_json_floats(doc.agent_profile),
                              from_json_floats(doc.agent_state))]
    ELSE [ok |-> FALSE, version |-> 0, data |-> << >>]

\* the places a snapshot is kept: a JSON text written from the Serialize impl,
\* the file of a FileBackend, the row of a SqliteBackend
Kinds == {"json", "file", "sqlite"}
Backends == {"file", "sqlite"}
\* the document the place `kind` holds, as << doc >>, or << >> when it holds none
stored_at(d, kind) == IF d.kind = kind THEN d.doc ELSE << >>

\* a load that treats a missing file or row as an error
backend_load_strict(d, kind) ==
    IF stored_at(d, kind) = << >> THEN [outcome |-> "Storage", data |-> << >>]
    ELSE IF from_json(stored_at(d, kind)[1]).ok
         THEN [outcome |-> "ok", data |-> from_json(stored_at(d, kind)[1]).data]
         ELSE [outcome |-> "Serialization", data |-> << >>]

\* FileBackend::load / SqliteBackend::load
backend_load(d, kind) ==
    IF stored_at(d, kind) = << >>
    THEN [outcome |-> "ok",
          data |-> StoredData(EmptyMap, AgentProfile_default, AgentState_default)]
    ELSE IF from_json(stored_at(d, kind)[1]).ok
         THEN [outcome |-> "ok", data |-> from_json(stored_at(d, kind)[1]).data]
         ELSE [outcome |-> "Serialization", data |-> << >>]

\* impl Deserialize for MemoryStore, on the text read back
deserialize(d, kind) ==
    IF stored_at(d, kind) = << >> THEN [outcome |-> "Storage", data |-> << >>]
    ELSE IF ~from_json(stored_at(d, kind)[1]).ok
         THEN [outcome |-> "Serialization", data |-> << >>]
    ELSE IF from_json(stored_at(d, kind)[1]).version # DATA_FORMAT_VERSION
         THEN [outcome |-> "Serialization", data |-> << >>]
    ELSE [outcome |-> "ok", data |-> from_json(stored_at(d, kind)[1]).data]

\* impl Serialize for MemoryStore (kind "json"); MemoryStore::save(&backend)
save(kind) ==
    /\ variant = "single"
    /\ disk' = [kind |-> kind,
                doc |-> << to_json(StoredData(shards[0], agent_profile, agent_state),
                                   IF kind = "json" THEN << DATA_FORMAT_VERSION >> ELSE << >>) >>,
                saved |-> << StoredData(shards[0], agent_profile, agent_state) >>]
    /\ last' = [NoCall EXCEPT !.op = "save", !.kind = kind, !.pre = shards,
                              !.state = agent_state, !.profile = agent_profile, !.now = clock]
    /\ UNCHANGED <<variant, shards, agent_profile, agent_state, clock, track, gone, added,
                   callers, held, ops, reinforced, faiss_index>>

\* serde_json::from_str::<MemoryStore>(..) (kind "json"); MemoryStore::load(&backend).
\* The program goes on with the store that was built, if one was.
load(kind) ==
    /\ variant = "single"
    /\ \E r \in { IF kind = "json" THEN deserialize(disk, kind) ELSE backend_load(disk, kind) } :
          /\ last' = [NoCall EXCEPT !.op = "load", !.kind = kind, !.pre = shards,
                                    !.state = agent_state, !.profile = agent_profile,
                                    !.now = clock, !.outcome = r.outcome]
          /\ IF r.outcome = "ok"
             THEN /\ shards' = [s \in {0} |-> r.data.memories]
                  /\ agent_profile' = r.data.agent_profile
                  /\ agent_state' = r.data.agent_state
                  /\ faiss_index' = << >>
             ELSE UNCHANGED <<shards, agent_profile, agent_state, faiss_index>>
    /\ UNCHANGED <<variant, clock, track, gone, added, callers, held, ops, reinforced, disk>>

\* the version tags of snapshots left by other builds of the program: none,
\* the current one, a later one
ForeignVersions == { << >>, << DATA_FORMAT_VERSION >>, << DATA_FORMAT_VERSION + 1 >> }

\* a snapshot of an empty store written by another build is found in place
Plant(kind, version) ==
    /\ disk' = [kind |-> kind,
                doc |-> << to_json(StoredData(EmptyMap, AgentProfile_default,
                                              AgentState_default), version) >>,
                saved |-> << >>]
    /\ UNCHANGED <<variant, shards, agent_profile, agent_state, clock, last, track, gone,
                   added, callers, held, ops, reinforced, faiss_index>>

SaveStore == \E kind \in Kinds : save(kind)
LoadStore == \E kind \in Kinds : load(kind)
FindSnapshot == disk = NoSnapshot /\ \E kind \in Kinds, version \in ForeignVersions : Plant(kind, version)

PersistInit ==
    /\ track = FALSE
    /\ new("single", AgentProfile_default, AgentState_default)

\* the program builds its store, saves it, and later loads it; between the
\* save and the load it may remove records and replace the state
PersistNext ==
    \/ disk = NoSnapshot /\ AddNew
    \/ disk = NoSnapshot /\ Find
    \/ Remove
    \/ UpdateState
    \/ FindSnapshot
    \/ SaveStore
    \/ LoadStore

PersistSpec == PersistInit /\ [][PersistNext]_vars

(***************************************************************************)
(* MemoryStore built with the faiss feature: add_memory also puts the      *)
(* vector into a flat L2 index, created on the first add, and              *)
(* find_relevant asks the index when there is one.  The index returns the  *)
(* k entries nearest to the query by squared L2 distance, nearest first,   *)
(* fewer when it holds fewer.                                               *)
(***************************************************************************)
MaxIndexed == 3
\* the ids whose records have finite vectors
FaissIds == { id \in Ids : \A i \in DOMAIN PresetOf(id).vec : IsFinite(PresetOf(id).vec[i]) }

\* FaissIndex::new(dim) followed by add_vector
FaissIndex_new(id, vector) ==
    [dim |-> Len(vector), entries |-> << [id |-> id, vector |-> vector] >>]

\* FaissIndex::add_vector on an index of the vector's dimensionality
add_vector(index, id, vector) ==
    [index EXCEPT !.entries = Append(@, [id |-> id, vector |-> vector])]

l2_distance(a, b) ==
    FSumFrom(0, [i \in 1..Len(a) |-> FMul(FSub(a[i], b[i]), FSub(a[i], b[i]))], 1)

\* FaissIndex::search(query, k): the possible answers, entries at the same
\* distance coming in either order
search(index, query, k) ==
    IF Len(query) # index.dim THEN { << >> }
    ELSE LET dist == [e \in DOMAIN index.entries |-> l2_distance(query, index.entries[e].vector)]
         IN { take([i \in DOMAIN o |-> [dist |-> dist[o[i]], id |-> index.entries[o[i]].id]], k) :
                o \in { p \in IterOrders(DOMAIN index.entries) :
                          \A i, j \in DOMAIN p : i < j => FLe(dist[p[i]], dist[p[j]]) } }

\* .filter_map(|(dist, id)| self.memories.get(&id).map(|mem| (id, (1.0 / (1.0 + dist)) * retention)))
score_found(m, found, now, state, profile) ==
    LET present(e) == e.id \in DOMAIN m
        kept == SelectSeq(found, present)
    IN [i \in DOMAIN kept |->
          [id |-> kept[i].id,
           score |-> FMul(FDiv(SCALE, FAdd(SCALE, kept[i].dist)),
                          calculate_retention(m[kept[i].id], now, state, profile))]]

\* MemoryStore::add_memory with the faiss feature
add_memory_faiss(memory) ==
    /\ variant = "single"
    /\ faiss_index # << >> => Len(faiss_index[1].entries) < MaxIndexed
    /\ IF faiss_index # << >> /\ Len(memory.semantic_vector) # faiss_index[1].dim
       THEN /\ last' = [NoCall EXCEPT !.op = "add_memory", !.id = memory.id, !.pre = shards,
                                      !.state = agent_state, !.profile = agent_profile,
                                      !.now = clock, !.outcome = "panic"]
            /\ UNCHANGED <<variant, shards, agent_profile, agent_state, clock, faiss_index>>
       ELSE /\ faiss_index' =
                  IF faiss_index # << >>
                  THEN << add_vector(faiss_index[1], memory.id, memory.semantic_vector) >>
                  ELSE << FaissIndex_new(memory.id, memory.semantic_vector) >>
            /\ add_memory(memory)
    /\ UNCHANGED <<track, gone, added, callers, held, ops, reinforced, disk>>

\* MemoryStore::find_relevant with the faiss feature
find_relevant_faiss(query_vector, limit) ==
    /\ variant = "single"
    /\ Retrievals(Live) + limit <= MaxRetrievals
    /\ IF faiss_index # << >>
       THEN \E found \in search(faiss_index[1], query_vector, limit) :
               find_returns(rank_and_reinforce(shards,
                                score_found(shards[0], found, clock, agent_state, agent_profile),
                                limit, agent_profile.rho, clock),
                            query_vector, limit)
       ELSE \E r \in find_outcomes(variant, shards, query_vector, limit, clock,
                                   agent_state, agent_profile) :
               find_returns(r, query_vector, limit)
    /\ UNCHANGED <<track, gone, added, callers, held, ops, reinforced, faiss_index, disk>>

\* the records added: the one the caller holding `id` builds, or one with a
\* vector of another dimensionality
AddIndexed ==
    \E id \in FaissIds :
        \E p \in { PresetOf(id), PresetSeq[Len(PresetSeq)] } :
            add_memory_faiss(Built(id, p, clock))
FindIndexed == \E q \in FaissQueries, limit \in 1..MaxLimit : find_relevant_faiss(q, limit)
\* the store is serialized and deserialized: the store that comes back has no index
Reload == save("json") \/ load("json")

FaissInit ==
    /\ track = FALSE
    /\ new("single", AgentProfile_default, AgentState_default)

\* the calls made on such a store, all within one tick of the clock
FaissNext ==
    \/ AddIndexed
    \/ FindIndexed
    \/ Remove
    \/ Reload

FaissSpec == FaissInit /\ [][FaissNext]_vars

(***************************************************************************)
(* A store whose callers hand Memory::new arguments of any value            *)
(***************************************************************************)
\* store.add_memory(Memory::new(vec, emotion, age, capacity_weight))
AddClamped ==
    /\ \E id \in SharedIds, p \in NewArguments :
          add_memory(Memory_new(id, p.vec, p.emotion, p.age, p.cw, clock))
    /\ Sequential

ClampInit ==
    /\ track = FALSE
    /\ \E v \in Variants : new(v, AgentProfile_default, AgentState_default)

ClampNext ==
    \/ AddClamped
    \/ Get
    \/ Remove
    \/ Find
    \/ Maintain

ClampSpec == ClampInit /\ [][ClampNext]_vars

(***************************************************************************)
(* The sharded store built with any number of shards, holding records      *)
(* whose identifiers do and do not fit a usize                             *)
(***************************************************************************)
ShardCounts == 1..(MaxShards + 1)
WideIds == { 1, 2, UsizeRange + 1, UsizeRange + 2 }

\* ShardedMemoryStore::new(agent_profile, agent_state, num_shards)
ShardedMemoryStore_new(profile, state, num_shards) ==
    /\ num_shards > 0
    /\ variant = "sharded"
    /\ shards = [s \in 0..(num_shards - 1) |-> EmptyMap]
    /\ held = [s \in 0..(num_shards - 1) |-> 0]
    /\ agent_profile = profile
    /\ agent_state = state
    /\ clock = 0
    /\ last = NoCall
    /\ gone = {}
    /\ added = EmptyMap
    /\ callers = [c \in Callers |-> IdleCall]
    /\ ops = 0
    /\ reinforced = [id \in Ids |-> 0]
    /\ faiss_index = << >>
    /\ disk = NoSnapshot

ShardInit ==
    /\ track = FALSE
    /\ \E n \in ShardCounts : ShardedMemoryStore_new(AgentProfile_default, AgentState_default, n)

AddWide == (\E id \in WideIds : add_memory(Built(id, PresetOf(id), clock))) /\ Sequential
GetWide == (\E id \in WideIds : get_memory(id)) /\ Sequential
RemoveWide == (\E id \in WideIds : remove_memory(id)) /\ Sequential
FindWide == (\E limit \in 1..MaxLimit : find_relevant(<<SCALE, 0>>, limit)) /\ Sequential

ShardNext ==
    \/ AddWide
    \/ GetWide
    \/ RemoveWide
    \/ FindWide

ShardSpec == ShardInit /\ [][ShardNext]_vars

(***************************************************************************)
(* Properties                                                              *)
(***************************************************************************)
\* the records the store held when the last call was made
Before == AllOf(last.pre)
\* the scores the last find_relevant call computed, by id
ScoresBefore ==
    scores_of(variant, Before, last.query, last.now, last.state, agent_profile)
Returned == { last.result[i].mem.id : i \in DOMAIN last.result }
FindCalled == last.op = "find_relevant" /\ last.limit >= 1

\* C1: for every store variant, contents, query and limit >= 1 the list
\* find_relevant returns is ordered by non-increasing score:
\* results[i].score >= results[i+1].score for all adjacent pairs.
C1_RankingOrder ==
    FindCalled =>
        \A i \in 1..(Len(last.result) - 1) :
            FGe(last.result[i].score, last.result[i + 1].score)

\* C2: find_relevant(q, limit) with limit >= 1 on n live records returns
\* exactly min(limit, n) entries with pairwise distinct ids, and no record left
\* out has a score strictly greater than the score of a returned record.
C2_TopLimit ==
    FindCalled =>
        /\ Len(last.result) = Min(last.limit, Cardinality(DOMAIN Before))
        /\ Cardinality(Returned) = Len(last.result)
        /\ \A id \in (DOMAIN Before) \ Returned : \A i \in DOMAIN last.result :
              ~FGt(ScoresBefore[id], last.result[i].score)

\* the count and distinctness part of C2 alone
C2_CountAndIds ==
    FindCalled =>
        /\ Len(last.result) = Min(last.limit, Cardinality(DOMAIN Before))
        /\ Cardinality(Returned) = Len(last.result)

\* C3: find_relevant reinforces exactly the records it returns: every returned
\* record's stored retrieval_count and recall_history length have grown by
\* exactly 1, and every live record that was scored but not returned is left
\* completely unchanged.
C3_ReinforcesReturned ==
    FindCalled =>
        /\ DOMAIN Live = DOMAIN Before
        /\ \A id \in Returned :
              /\ Live[id].retrieval_count = Before[id].retrieval_count + 1
              /\ Len(Live[id].recall_history) = Len(Before[id].recall_history) + 1
        /\ \A id \in (DOMAIN Before) \ Returned : Live[id] = Before[id]

\* a query returned one record and left another one out
C3_Witness ==
    /\ FindCalled
    /\ Returned # {}
    /\ (DOMAIN Before) \ Returned # {}
    /\ \E id \in Returned : Live[id].retrieval_count = 2

\* C4: one reinforcement of a record with rho > 0 increments retrieval_count by
\* exactly 1, appends exactly one timestamp to recall_history, sets
\* last_retrieved to that timestamp, and replaces memory_strength by
\* memory_strength * 1/(1+rho), which is strictly smaller than before.
C4_OneReinforcement ==
    (FindCalled /\ FGt(agent_profile.rho, 0)) =>
        \A id \in Returned :
            /\ Live[id].retrieval_count = Before[id].retrieval_count + 1
            /\ Live[id].recall_history = Append(Before[id].recall_history, last.now)
            /\ Live[id].last_retrieved = last.now
            /\ Live[id].memory_strength =
                  FMul(Before[id].memory_strength, FDiv(SCALE, FAdd(SCALE, agent_profile.rho)))
            /\ FLt(Live[id].memory_strength, Before[id].memory_strength)

\* a record reinforced before is reinforced once more, after the clock moved
C4_Witness ==
    /\ FindCalled
    /\ FGt(agent_profile.rho, 0)
    /\ \E id \in Returned :
          /\ Before[id].retrieval_count = 1
          /\ Before[id].last_retrieved < last.now

RetentionBefore(id) ==
    calculate_retention(Before[id], last.now, last.state, agent_profile)
MaintainDone == last.op = "maintain" /\ last.outcome = "ok"

\* C6: after maintain(t) with t in [0,1], in the single-threaded, concurrent
\* and sharded stores, every record still in the store had retention >= t at
\* the sweep's time snapshot, and every record the call removed had retention
\* strictly less than t at that snapshot.
C6_EvictionThreshold ==
    MaintainDone =>
        /\ DOMAIN Live \subseteq DOMAIN Before
        /\ \A id \in DOMAIN Live :
              Live[id] = Before[id] /\ FGe(RetentionBefore(id), last.threshold)
        /\ \A id \in (DOMAIN Before) \ (DOMAIN Live) :
              FLt(RetentionBefore(id), last.threshold)

\* a sweep kept a record whose retention equals the threshold and removed another
C6_Witness ==
    /\ MaintainDone
    /\ \E id \in DOMAIN Live : FEq(RetentionBefore(id), last.threshold)
    /\ (DOMAIN Before) \ (DOMAIN Live) # {}

\* C7: maintain(t) returns exactly the number of records it removed: the
\* number of live records after the call equals the number before the call
\* minus the returned value (for the sharded store, summed over all shards).
C7_ReturnsRemoved ==
    MaintainDone =>
        Cardinality(DOMAIN Live) = Cardinality(DOMAIN Before) - last.count

\* a sweep of the sharded store removed records from two shards
C7_Witness ==
    /\ MaintainDone
    /\ variant = "sharded"
    /\ last.count >= 2
    /\ \A s \in DOMAIN shards : DOMAIN last.pre[s] # DOMAIN shards[s]

\* C8: maintain(0.0) removes no record and returns 0, whatever records,
\* profile and state the store holds.
C8_ZeroThresholdKeepsAll ==
    (MaintainDone /\ last.threshold = 0) => (shards = last.pre /\ last.count = 0)

\* maintain(0.0) swept a store holding a record whose retention is 0.0
C8_Witness ==
    /\ MaintainDone
    /\ last.threshold = 0
    /\ \E id \in DOMAIN Before : RetentionBefore(id) = 0

OutOfRange(t) == FGt(t, SCALE) \/ FLt(t, 0)

C10_LimitZeroIsError ==
    (last.op = "find_relevant" /\ last.limit = 0) =>
        (last.outcome \in {"InvalidParameter", "panic"} /\ shards = last.pre)

\* C11: in all three store variants, remove(id) for an id that is not in the
\* store returns NotFound and leaves the records, the profile and the state
\* as they were; remove(id) for an id that is in the store returns success.
C11_RemoveAbsentNotFound ==
    last.op = "remove_memory" =>
        IF last.id \in DOMAIN Before
        THEN last.outcome = "ok"
        ELSE /\ last.outcome = "NotFound"
             /\ shards = last.pre
             /\ agent_profile = last.profile
             /\ agent_state = last.state

\* remove named an id that was not in a store holding other records
C11_Witness ==
    /\ last.op = "remove_memory"
    /\ last.id \notin DOMAIN Before
    /\ DOMAIN Before # {}

\* the ids of the records of every list the last batch call returned
BatchReturned ==
    UNION { { last.batch[k][i].mem.id : i \in DOMAIN last.batch[k] } : k \in DOMAIN last.batch }

\* C12: once a record has been removed by remove or evicted by maintain, and
\* until its id is added again, it is not in the store, get(id) returns
\* nothing, no find_relevant result contains it, and a later maintain counts
\* only records that were in the store when it started.
C12_RemovedUnreachable ==
    \A id \in gone :
        /\ id \notin DOMAIN Live
        /\ (last.op = "get_memory" /\ last.id = id) =>
              (last.outcome = "none" /\ last.result = << >>)
        /\ last.op = "find_relevant" => id \notin Returned
        /\ last.op = "find_relevant_batch" => id \notin BatchReturned
        /\ (MaintainDone /\ id \notin DOMAIN Before) =>
              last.count = Cardinality((DOMAIN Before) \ (DOMAIN Live))

\* get was called for an id that had left the store, in a store still holding
\* another record
C12_Witness ==
    /\ last.op = "get_memory"
    /\ last.id \in gone
    /\ DOMAIN Live # {}

\* the fields of a record that reinforcement does not write
Content(mem) ==
    [id |-> mem.id, semantic_vector |-> mem.semantic_vector, emotion |-> mem.emotion,
     age_at_formation |-> mem.age_at_formation, capacity_weight |-> mem.capacity_weight,
     timestamp |-> mem.timestamp, decay_params |-> mem.decay_params]

\* C13: in all three store variants add(m) returns m.id and, until that id is
\* removed or evicted, the store holds under m.id a record with that id whose
\* content equals m apart from reinforcement (it is m itself while it has not
\* been reinforced), and get(m.id) returns that record.
C13_AddThenGet ==
    /\ last.op = "add_memory" => last.id = last.result[1].id
    /\ \A id \in DOMAIN added :
          /\ added[id].id = id
          /\ id \in DOMAIN Live
          /\ Live[id].id = id
          /\ Content(Live[id]) = Content(added[id])
          /\ Live[id].retrieval_count = 0 => Live[id] = added[id]
          /\ (last.op = "get_memory" /\ last.id = id) =>
                (last.outcome = "some" /\ last.result = << Live[id] >>)

\* get returned a record that was added, then reinforced by a query made at
\* a later time
C13_Witness ==
    /\ last.op = "get_memory"
    /\ last.id \in DOMAIN added
    /\ last.outcome = "some"
    /\ last.result[1].retrieval_count >= 1
    /\ last.result[1].last_retrieved > added[last.id].last_retrieved

\* the store of type v holding the records `all`: one map, or MaxShards maps
\* with every record in the map its id selects
LayoutFor(v, all) ==
    LET n == IF v = "sharded" THEN MaxShards ELSE 1
    IN [s \in 0..(n - 1) |-> [id \in { i \in DOMAIN all : i % n = s } |-> all[id]]]

IdsOf(result) == [i \in DOMAIN result |-> result[i].mem.id]

\* the id orderings a store of type v can return for the last query, when it
\* holds the records the queried store held
OrderingsOf(v) ==
    { IdsOf(r.result) :
        r \in find_outcomes(v, LayoutFor(v, Before), last.query, last.limit, last.now,
                            last.state, last.profile) }

\* the count a store of type v returns for the last sweep, when it holds the
\* records the swept store held
EvictionCountOf(v) ==
    LET lay == LayoutFor(v, Before)
    IN total_pruned([s \in DOMAIN lay |->
            Cardinality(DOMAIN lay[s]) -
            Cardinality(DOMAIN retain(lay[s], last.threshold, last.now, last.state, last.profile))])

\* C14: holding the same records under the same profile and state and given
\* the same call by a single caller, the single-threaded, the concurrent and
\* the sharded store return the same find_relevant ordering (the same ids in
\* the same order) and the same maintain eviction count.
C14_VariantsAgree ==
    /\ FindCalled => \A v \in Variants : OrderingsOf(v) = { IdsOf(last.result) }
    /\ MaintainDone => \A v \in Variants : EvictionCountOf(v) = last.count

\* the eviction-count half of C14 alone
C14_SameEvictionCounts ==
    MaintainDone => \A v \in Variants : EvictionCountOf(v) = last.count

\* C15: the sharded store's find_relevant scores the records of every shard
\* and truncates after one global sort, so its result is the global top-limit
\* by score: min(limit, n) entries, each of them scoring at least as high as
\* every record of any shard that was left out.
C15_ShardedGlobalTopLimit ==
    (FindCalled /\ variant = "sharded") =>
        /\ Len(last.result) = Min(last.limit, Cardinality(DOMAIN Before))
        /\ \A id \in (DOMAIN Before) \ Returned : \A i \in DOMAIN last.result :
              FGe(last.result[i].score, ScoresBefore[id])

\* C15 for stores in which every record's score is a number: the result is the
\* global top-limit whichever shards the records are in
C15_GlobalTopLimitOfNumbers ==
    (FindCalled /\ variant = "sharded" /\ \A id \in DOMAIN Before : ~IsNaN(ScoresBefore[id])) =>
        /\ Len(last.result) = Min(last.limit, Cardinality(DOMAIN Before))
        /\ \A id \in (DOMAIN Before) \ Returned : \A i \in DOMAIN last.result :
              FGe(last.result[i].score, ScoresBefore[id])

\* C19: update_state(s) replaces the agent state wholesale: right after it the
\* state is s in every field and the records and the profile are what they
\* were; no other call changes the state, and the retention computed by a
\* later maintain or find_relevant is the retention under that state.
C19_StateReplacedWholesale ==
    /\ last.op = "update_agent_state" =>
          (agent_state = last.new_state /\ shards = last.pre /\ agent_profile = last.profile)
    /\ last.op \notin {"new", "update_agent_state"} => agent_state = last.state
    /\ MaintainDone =>
          \A id \in DOMAIN Before :
              id \in DOMAIN Live <=>
                  FGe(calculate_retention(Before[id], last.now, agent_state, agent_profile),
                      last.threshold)
    /\ FindCalled =>
          \A i \in DOMAIN last.result :
              last.result[i].score =
                  score_of(variant, Before[last.result[i].mem.id], last.query, last.now,
                           agent_state, agent_profile)

\* the state of a store holding records was replaced by a different one
C19_Witness ==
    /\ last.op = "update_agent_state"
    /\ last.new_state # last.state
    /\ DOMAIN Live # {}

\* C20: callers never obtain a mutable handle into store-owned records, so a
\* stored record changes only through the store's own reinforcement (or by
\* being replaced by an add of its id) and leaves only through removal.
C20_OnlyStoreMutates ==
    \A id \in (DOMAIN Before) \cap (DOMAIN Live) :
        Live[id] # Before[id] =>
            \/ last.op \in {"find_relevant", "find_relevant_batch"}
            \/ last.op = "add_memory" /\ last.id = id

\* the callers that hold the guard of a record's map between get_mut and the
\* end of record_retrieval on record id
Reinforcing(id) ==
    { c \in Callers : callers[c].pc = "record" /\ callers[c].top_n[callers[c].i].id = id }

\* C16: in the concurrent and sharded stores reinforcement of one record is
\* atomic: when k find_relevant calls by different callers have each selected
\* and reinforced record r since it was added, and r was not removed meanwhile,
\* its stored retrieval_count and recall_history length are exactly k, with no
\* reinforcement lost or half-applied.
C16_ReinforcementAtomic ==
    \A id \in DOMAIN Live :
        /\ Cardinality(Reinforcing(id)) <= 1
        /\ Reinforcing(id) = {} =>
              /\ Live[id].retrieval_count = reinforced[id]
              /\ Len(Live[id].recall_history) = reinforced[id]

\* two callers' queries, both still running, have each reinforced the same record
C16_Witness ==
    \E id \in DOMAIN Live :
        /\ Live[id].retrieval_count = 2
        /\ \A c \in Callers :
              /\ callers[c].op = "find_relevant"
              /\ callers[c].pc = "collect"
              /\ \E i \in DOMAIN callers[c].top_n : callers[c].top_n[i].id = id

\* C17: in the concurrent and sharded stores, under any interleaving of add,
\* get, remove, find_relevant, maintain and update_state by several callers,
\* every invoked call eventually completes: no caller stays blocked forever.
C17_EveryCallCompletes ==
    \A c \in Callers : (callers[c].pc # "idle") ~> (callers[c].pc = "idle")

\* a caller's remove waits for the guard another caller's query holds
C17_Witness ==
    \E c, d \in Callers :
        /\ c # d
        /\ callers[c].pc = "record"
        /\ callers[d].pc = "remove"
        /\ held[shard_index(shards, callers[d].id)] = c

\* C18: no store operation re-inserts a record: a record that remove or
\* maintain took out while a find_relevant call that had scored it was still
\* running stays out of the store (until a caller adds it again); the
\* reinforcement and copy steps of that call skip it.
C18_NoReinsertion ==
    /\ \A id \in gone : id \notin DOMAIN Live
    /\ \A c \in Callers :
          (callers[c].op = "find_relevant" /\ callers[c].pc = "idle") =>
              \A i \in DOMAIN callers[c].result :
                  \E j \in DOMAIN callers[c].top_n :
                      callers[c].top_n[j].id = callers[c].result[i].mem.id

\* a query finished after a record it had scored and selected was removed,
\* and returned without it
C18_Witness ==
    \E c \in Callers :
        /\ callers[c].op = "find_relevant"
        /\ callers[c].pc = "idle"
        /\ \E j \in DOMAIN callers[c].top_n :
              /\ callers[c].top_n[j].id \in gone
              /\ \A i \in DOMAIN callers[c].result :
                    callers[c].result[i].mem.id # callers[c].top_n[j].id

\* the fields of a record that only reinforcement writes
Reinforcement(mem) ==
    [retrieval_count |-> mem.retrieval_count, recall_history |-> mem.recall_history,
     last_retrieved |-> mem.last_retrieved, memory_strength |-> mem.memory_strength]

\* C21: only find_relevant and its batch form reinforce: add of a new id, get,
\* remove, maintain and update_state leave retrieval_count, recall_history,
\* last_retrieved and memory_strength of every record that remains in the
\* store unchanged, and the records that survive maintain are identical to
\* what they were before it.
C21_OnlyFindReinforces ==
    (\/ last.op \in {"get_memory", "remove_memory", "maintain", "update_agent_state"}
     \/ last.op = "add_memory" /\ last.id \notin DOMAIN Before) =>
        \A id \in (DOMAIN Before) \cap (DOMAIN Live) :
            /\ Reinforcement(Live[id]) = Reinforcement(Before[id])
            /\ last.op = "maintain" => Live[id] = Before[id]

\* a sweep removed a record and kept one that a query had reinforced before
C21_Witness ==
    /\ MaintainDone
    /\ (DOMAIN Before) \ (DOMAIN Live) # {}
    /\ \E id \in DOMAIN Live : Before[id].retrieval_count >= 1

BatchCalled == last.op = "find_relevant_batch"

\* the store as the first query of the last batch left it: the records that
\* query returned are the reinforced copies it handed back
AfterFirst ==
    [s \in DOMAIN last.pre |->
        [id \in DOMAIN last.pre[s] |->
            IF \E i \in DOMAIN last.batch[1] : last.batch[1][i].mem.id = id
            THEN last.batch[1][CHOOSE i \in DOMAIN last.batch[1] : last.batch[1][i].mem.id = id].mem
            ELSE last.pre[s][id]]]

\* the result lists find_relevant can return for query q on the store sh
FindResults(sh, q) ==
    { r.result : r \in find_outcomes(variant, sh, q, last.limit, last.now, last.state,
                                     last.profile) }

\* one list per query, in the order of the queries, each what find_relevant
\* returns for that query when its turn comes
BatchListsPerQuery ==
    /\ Len(last.batch) = Len(last.queries)
    /\ last.batch[1] \in FindResults(last.pre, last.queries[1])
    /\ last.batch[2] \in FindResults(AfterFirst, last.queries[2])
    /\ \A k \in DOMAIN last.batch :
          Len(last.batch[k]) = Min(last.limit, Cardinality(DOMAIN Before))

\* C22: all three store variants offer find_relevant_batch(queries, limit),
\* and it returns one result list per query vector, in the order of the
\* queries, each list being what find_relevant returns for that query (so each
\* has min(limit, number of live records) entries in single-caller execution).
C22_BatchInAllVariants ==
    /\ variant \in BatchVariants
    /\ BatchCalled => BatchListsPerQuery

\* C22 for the store types that have the method
C22_BatchListsWhereOffered ==
    BatchCalled => BatchListsPerQuery

\* C23: within one find_relevant_batch call the queries are isolated: the
\* reinforcement applied for an earlier query of the batch does not affect the
\* scores computed for a later query of the same batch; every query of the
\* batch is scored against the record state as it was when the batch started.
C23_BatchIsolated ==
    BatchCalled =>
        \A k \in DOMAIN last.batch : \A i \in DOMAIN last.batch[k] :
            last.batch[k][i].score =
                score_of(variant, Before[last.batch[k][i].mem.id], last.queries[k], last.now,
                         last.state, last.profile)

\* C23, as the code has it: the queries of a batch run one after the other,
\* each a complete find_relevant call; the first is scored against the records
\* as the batch found them, every later one against the records as the
\* reinforcement of the earlier queries left them.
C23_BatchSequential ==
    BatchCalled =>
        /\ \A i \in DOMAIN last.batch[1] :
              last.batch[1][i].score =
                  score_of(variant, Before[last.batch[1][i].mem.id], last.queries[1], last.now,
                           last.state, last.profile)
        /\ \A i \in DOMAIN last.batch[2] :
              last.batch[2][i].score =
                  score_of(variant, AllOf(AfterFirst)[last.batch[2][i].mem.id], last.queries[2],
                           last.now, last.state, last.profile)

\* the second query of a batch returned a record the first query had
\* reinforced, with a score other than the one it had when the batch started
C23_Witness ==
    /\ BatchCalled
    /\ \E i \in DOMAIN last.batch[2] :
          /\ \E j \in DOMAIN last.batch[1] : last.batch[1][j].mem.id = last.batch[2][i].mem.id
          /\ last.batch[2][i].score #
                score_of(variant, Before[last.batch[2][i].mem.id], last.queries[2], last.now,
                         last.state, last.profile)

\* the retention product of a record before .max(0.0).min(1.0)
RawRetention(mem, now, state, profile) ==
    FMul(TermsTable[FormationOf(mem)][now - mem.timestamp][state][profile], mem.memory_strength)

\* C24: for all records, agent states, profiles and times, calculate_retention
\* returns a value r with 0.0 <= r <= 1.0, including when the record's
\* timestamp lies after `now` or an intermediate term is not a finite number.
C24_RetentionInUnitRange ==
    \A id \in DOMAIN Live, state \in States, profile \in Profiles, now \in 0..MaxClock :
        \A r \in { calculate_retention(Live[id], now, state, profile) } :
            FLe(0, r) /\ FLe(r, SCALE)

\* the store holds a record stamped after the present time whose retention
\* product is NaN, and one whose product is infinite or negative
C24_Witness ==
    /\ \E id \in DOMAIN Live :
          /\ Live[id].timestamp > clock
          /\ IsNaN(RawRetention(Live[id], clock, agent_state, agent_profile))
    /\ \E id \in DOMAIN Live, state \in States, profile \in Profiles :
          \/ IsInf(RawRetention(Live[id], clock, state, profile))
          \/ FLt(RawRetention(Live[id], clock, state, profile), 0)

KernelCalled == last.op = "cosine_similarity"
\* the squares of the components of a are all exactly 0.0
ZeroNorm(a) == \A i \in DOMAIN a : FMul(a[i], a[i]) = 0
IsFloat(x) == IsNaN(x) \/ IsInf(x) \/ x \in (-FMAX)..FMAX

\* C25: the similarity kernel is total and never signals an error: it returns
\* exactly 0 when either vector is empty, when the two lengths differ, or when
\* either vector has norm exactly zero, in the SIMD-utility, SSE2 and scalar
\* implementations alike.
C25_KernelTotalZeroCases ==
    KernelCalled =>
        /\ IsFloat(last.ab)
        /\ (\/ Len(last.a) = 0
            \/ Len(last.b) = 0
            \/ Len(last.a) # Len(last.b)
            \/ ZeroNorm(last.a)
            \/ ZeroNorm(last.b)) => last.ab = 0

\* the SIMD-utility kernel was given a vector of norm zero and a vector of
\* the same length holding a NaN
C25_Witness ==
    /\ KernelCalled
    /\ last.kernel = "single"
    /\ Len(last.a) = Len(last.b)
    /\ Len(last.a) > 0
    /\ ZeroNorm(last.a)
    /\ \E i \in DOMAIN last.b : IsNaN(last.b[i])

\* C26: similarity is symmetric: for all vectors a and b (of equal or
\* different length, including empty), similarity(a, b) and similarity(b, a)
\* differ by less than 1e-6 (here: by less than the smallest step of the
\* number format).
C26_Symmetric ==
    KernelCalled => FLt(FAbs(FSub(last.ab, last.ba)), 1)

\* C26 for the pairs whose similarity is a finite number, and what the kernels
\* do otherwise: both calls return the same value, and the difference of two
\* NaN or two infinite results is not below any tolerance
C26_SameValueBothWays ==
    KernelCalled =>
        /\ last.ab = last.ba
        /\ IsFinite(last.ab) => FLt(FAbs(FSub(last.ab, last.ba)), 1)

LoadCalled == last.op = "load"
\* the document the last load found in the place it read, as << doc >>
Found == stored_at(disk, last.kind)
StoreNow == StoredData(shards[0], agent_profile, agent_state)
StoreBefore == StoredData(last.pre[0], last.profile, last.state)

\* C27: loading through a storage backend when no prior state exists (file
\* path absent, or no row in the SQLite table) succeeds and yields an empty
\* record mapping with the default profile and default state; it is not an
\* error.
C27_LoadOfNothingIsEmptyStore ==
    (LoadCalled /\ last.kind \in Backends /\ Found = << >>) =>
        /\ last.outcome = "ok"
        /\ StoreNow = StoredData(EmptyMap, AgentProfile_default, AgentState_default)

\* a program holding records under a state of its own loaded from a backend
\* that held nothing
C27_Witness ==
    /\ LoadCalled
    /\ last.kind \in Backends
    /\ Found = << >>
    /\ DOMAIN last.pre[0] # {}
    /\ last.state # AgentState_default

\* C28: every serialized snapshot of a store carries an explicit
\* format-version tag, and every load path (deserializing a MemoryStore, and
\* MemoryStore::load through a StorageBackend) rejects with an error any
\* snapshot whose version tag is missing or differs from the current format
\* version, never building a store from it.
C28_VersionTagChecked ==
    /\ disk.saved # << >> => disk.doc[1].version = << DATA_FORMAT_VERSION >>
    /\ (LoadCalled /\ Found # << >> /\ Found[1].version # << DATA_FORMAT_VERSION >>) =>
          (last.outcome # "ok" /\ StoreNow = StoreBefore)

\* C28 for the Serialize / Deserialize impls of MemoryStore alone
C28_DeserializeChecksVersion ==
    /\ (disk.saved # << >> /\ disk.kind = "json") =>
          disk.doc[1].version = << DATA_FORMAT_VERSION >>
    /\ (LoadCalled /\ last.kind = "json" /\ Found # << >>
           /\ Found[1].version # << DATA_FORMAT_VERSION >>) =>
          (last.outcome # "ok" /\ StoreNow = StoreBefore)

\* the store that was saved holds no float that is NaN or infinite
SavedIsFinite == from_json(disk.doc[1]).ok

\* C29: save followed by load is a round trip: a store saved to a backend (or
\* serialized to JSON) and loaded back holds exactly the same set of record
\* ids with equal records, and the same profile and state, as the store that
\* was saved.
C29_SaveLoadRoundTrip ==
    (LoadCalled /\ Found # << >> /\ disk.saved # << >>) =>
        (last.outcome = "ok" /\ StoreNow = disk.saved[1])

\* C29 for the stores all of whose floats are finite
C29_RoundTripOfFiniteStores ==
    (LoadCalled /\ Found # << >> /\ disk.saved # << >> /\ SavedIsFinite) =>
        (last.outcome = "ok" /\ StoreNow = disk.saved[1])

\* the index the store had when the last call was made, as << index >>
IndexThen == faiss_index
\* what the store without an index can do and return for the last query
LinearScanOutcomes ==
    find_outcomes("single", last.pre, last.query, last.limit, last.now, last.state,
                  last.profile)

\* C30: when the optional external similarity index is absent, or the query
\* vector's dimensionality does not match the index, find_relevant falls back
\* to the in-store linear scan over all live records and returns the same
\* result as the store without an index would.
C30_FallsBackToLinearScan ==
    (/\ last.op = "find_relevant"
     /\ \/ IndexThen = << >>
        \/ Len(last.query) # IndexThen[1].dim) =>
        [shards |-> shards, result |-> last.result] \in LinearScanOutcomes

\* C30 for the store whose index is absent
C30_AbsentIndexScans ==
    (last.op = "find_relevant" /\ IndexThen = << >>) =>
        [shards |-> shards, result |-> last.result] \in LinearScanOutcomes

\* a store holding records and no index was queried
C30_AbsentIndexWitness ==
    /\ last.op = "find_relevant"
    /\ IndexThen = << >>
    /\ DOMAIN Before # {}

\* C31: find_relevant on a store that holds no records returns a NotFound
\* error, as its documentation states.
C31_EmptyStoreIsNotFound ==
    (FindCalled /\ DOMAIN Before = {}) => last.outcome = "NotFound"

InUnit(x, lo) == FLe(lo, x) /\ FLe(x, SCALE)

\* C32: every record's emotion lies in [-1, 1] and capacity_weight lies in
\* [0, 1]: Memory::new clamps out-of-range arguments into these ranges, and
\* the values stay in range in every reachable state of a record held by a
\* store.
C32_FieldsInRange ==
    \A id \in DOMAIN Live :
        /\ InUnit(Live[id].emotion, -SCALE)
        /\ InUnit(Live[id].capacity_weight, 0)

\* C32 for the records built from arguments that are numbers: the two fields
\* are in range from the add on, whatever the store does with the record
C32_NumbersInRange ==
    \A id \in DOMAIN Live :
        /\ ~IsNaN(Live[id].emotion) => InUnit(Live[id].emotion, -SCALE)
        /\ ~IsNaN(Live[id].capacity_weight) => InUnit(Live[id].capacity_weight, 0)

\* C33: in a single-caller execution each entry (score, copy) returned by
\* find_relevant pairs the score computed before reinforcement with a copy
\* taken after it: the copy is the stored record as the call left it, with
\* retrieval_count one higher than before the call and the reinforced
\* memory_strength, while the score is the one computed from the record as it
\* was before the call.
C33_ScoreBeforeCopyAfter ==
    FindCalled =>
        \A i \in DOMAIN last.result :
            \E id \in { last.result[i].mem.id } :
                /\ id \in DOMAIN Before
                /\ last.result[i].mem = Live[id]
                /\ last.result[i].mem.retrieval_count = Before[id].retrieval_count + 1
                /\ last.result[i].mem.memory_strength =
                      record_retrieval(Before[id], last.profile.rho, last.now).memory_strength
                /\ last.result[i].score = ScoresBefore[id]

\* a query returned a record whose score would have been another one had it
\* been computed from the reinforced record
C33_Witness ==
    /\ FindCalled
    /\ \E i \in DOMAIN last.result :
          /\ last.result[i].score # 0
          /\ last.result[i].mem.memory_strength # Before[last.result[i].mem.id].memory_strength
          /\ last.result[i].score #
                score_of(variant, last.result[i].mem, last.query, last.now, last.state,
                         last.profile)

ShardBefore(id) == CHOOSE s \in DOMAIN last.pre : id \in DOMAIN last.pre[s]

\* the routing part of C35: a record that is stored is found by get and by
\* remove, and reinforced by the query that returns it
RoutedAlike ==
    /\ (last.op = "get_memory" /\ last.id \in DOMAIN Before) =>
          (last.outcome = "some" /\ last.result = << Before[last.id] >>)
    /\ (last.op = "remove_memory" /\ last.id \in DOMAIN Before) =>
          (last.outcome = "ok" /\ last.id \notin DOMAIN Live)
    /\ last.op = "find_relevant" =>
          \A id \in Returned : Live[id].retrieval_count = Before[id].retrieval_count + 1

\* C35: in the sharded store with N >= 1 shards, every stored record lives in
\* exactly one shard, the one with index (id mod N), in every reachable state;
\* add, get, remove and the reinforcement step of find_relevant all route an
\* id to that same shard, so a record added is always found by get and remove.
C35_ShardIsIdModN ==
    /\ \A s \in DOMAIN shards : \A id \in DOMAIN shards[s] :
          s = id % Cardinality(DOMAIN shards)
    /\ RoutedAlike

\* C35, as the code has it: every stored record lives in exactly one shard,
\* the one with index ((id truncated to a usize) mod N); add, get, remove and
\* the reinforcement step of find_relevant all route an id to that same
\* shard, so a record added is always found by get and remove.
C35_ShardIsTruncatedIdModN ==
    /\ \A s \in DOMAIN shards : \A id \in DOMAIN shards[s] :
          /\ s = (id % UsizeRange) % Cardinality(DOMAIN shards)
          /\ shards[s][id].id = id
          /\ \A u \in DOMAIN shards : id \in DOMAIN shards[u] => u = s
    /\ RoutedAlike

\* a store of three shards returned from get a record whose identifier does
\* not fit a usize, stored in another shard than (id mod N)
C35_Witness ==
    /\ last.op = "get_memory"
    /\ last.outcome = "some"
    /\ last.id >= UsizeRange
    /\ ShardBefore(last.id) # last.id % Cardinality(DOMAIN shards)
    /\ Cardinality(DOMAIN Before) >= 2

\* C36: in the concurrent and sharded stores, when add or remove calls by
\* other callers interleave with a running maintain(t), the value maintain
\* returns is still a non-negative count equal to the number of records that
\* this maintain call itself removed; the 'count before minus count after'
\* subtraction never underflows and never counts other callers' insertions or
\* removals.
C36_MaintainCountsOwnRemovals ==
    \A c \in Callers :
        (callers[c].op = "maintain" /\ callers[c].pc = "idle") =>
            /\ callers[c].outcome = "ok"
            /\ callers[c].total >= 0
            /\ callers[c].total = Cardinality(callers[c].swept)

\* the entry caller c's query appends to its result in this step, as << entry >>
Copied(c) ==
    IF callers[c].op = "find_relevant" /\ callers[c].pc = "collect"
       /\ Len(callers'[c].result) = Len(callers[c].result) + 1
    THEN << callers'[c].result[Len(callers'[c].result)] >>
    ELSE << >>

\* C37: in the concurrent and sharded stores, under any interleaving with add,
\* remove and maintain by other callers, a find_relevant(q, limit) call
\* returns at most limit entries with pairwise distinct ids, every returned
\* record was present in the store at the moment its copy was taken (the copy
\* is the stored record of that moment), and no returned record is one that
\* was removed before the call started and never added again.
C37_BoundedDistinctPresent ==
    /\ [](\A c \in Callers :
            callers[c].op = "find_relevant" =>
                /\ Len(callers[c].result) <= callers[c].limit
                /\ \A i, j \in DOMAIN callers[c].result :
                      i # j => callers[c].result[i].mem.id # callers[c].result[j].mem.id)
    /\ [][\A c \in Callers :
            \A e \in { Copied(c)[i] : i \in DOMAIN Copied(c) } :
                /\ e.mem.id \in DOMAIN Live
                /\ e.mem = Live[e.mem.id]
                /\ e.mem.id \notin gone]_vars

\* a query returned the copy of a record that another caller's add replaced
\* after the query had reinforced it
C37_Witness ==
    \E c \in Callers :
        /\ callers[c].op = "find_relevant"
        /\ callers[c].pc = "idle"
        /\ \E i \in DOMAIN callers[c].result :
              /\ callers[c].result[i].mem.retrieval_count = 0
              /\ callers[c].result[i].mem.id \in DOMAIN Live

\* s is an initial part of t
IsPrefix(s, t) == Len(s) <= Len(t) /\ SubSeq(t, 1, Len(s)) = s

\* C38: for every record created by Memory::new and then held by a store, in
\* every reachable state retrieval_count equals the length of recall_history,
\* recall_history only ever grows by appending at its end (from one call to
\* the next the old history is an initial part of the new one, unless an add
\* put a new record under the id), and when recall_history is non-empty
\* last_retrieved equals its last element.
C38_HistoryMatchesCount ==
    /\ \A id \in DOMAIN Live :
          /\ Live[id].retrieval_count = Len(Live[id].recall_history)
          /\ Live[id].recall_history # << >> =>
                Live[id].last_retrieved =
                    Live[id].recall_history[Len(Live[id].recall_history)]
    /\ \A id \in (DOMAIN Before) \cap (DOMAIN Live) :
          \/ last.op = "add_memory" /\ last.id = id
          \/ IsPrefix(Before[id].recall_history, Live[id].recall_history)

\* a record retrieved at one time was retrieved again at a later time
C38_Witness ==
    /\ FindCalled
    /\ \E id \in Returned :
          /\ Len(Live[id].recall_history) = 2
          /\ Live[id].recall_history[1] < Live[id].recall_history[2]
          /\ Live[id].last_retrieved # Live[id].timestamp

\* C39: a store holds at most one record per id in every reachable state: no
\* id is in two maps of the store and the record under an id carries that id;
\* add of a record whose id is already present replaces the stored record
\* with the new value (discarding the old record's reinforcement history) and
\* leaves the number of records and every other record unchanged, in all
\* three variants.
C39_OneRecordPerId ==
    /\ \A s, u \in DOMAIN shards :
          s # u => (DOMAIN shards[s]) \cap (DOMAIN shards[u]) = {}
    /\ \A id \in DOMAIN Live : Live[id].id = id
    /\ (last.op = "add_memory" /\ last.id \in DOMAIN Before) =>
          /\ Live[last.id] = last.result[1]
          /\ Cardinality(DOMAIN Live) = Cardinality(DOMAIN Before)
          /\ \A id \in (DOMAIN Live) \ {last.id} : Live[id] = Before[id]

\* an add replaced a record that had a retrieval history, in a store holding
\* another record too
C39_Witness ==
    /\ last.op = "add_memory"
    /\ last.id \in DOMAIN Before
    /\ Before[last.id].retrieval_count >= 1
    /\ Live[last.id].retrieval_count = 0
    /\ Cardinality(DOMAIN Live) >= 2

\* the records that scored strictly higher than record id in the last query
ScoredHigher(id) == { j \in DOMAIN Before : FGt(ScoresBefore[j], ScoresBefore[id]) }

\* C40: find_relevant applies no minimum-score filter: a record whose score is
\* 0 (for example because its vector length differs from the query's) or
\* negative is still a ranking candidate, so whenever fewer than limit records
\* score higher it is returned and reinforced like any other result.
C40_NoMinimumScore ==
    FindCalled =>
        \A id \in DOMAIN Before :
            (FLe(ScoresBefore[id], 0) /\ Cardinality(ScoredHigher(id)) < last.limit) =>
                /\ id \in Returned
                /\ Live[id].retrieval_count = Before[id].retrieval_count + 1

\* C40 for the queries in which every score is a number and the record's
\* score is not shared by another record
C40_NoMinimumScoreOfNumbers ==
    (FindCalled /\ \A j \in DOMAIN Before : ~IsNaN(ScoresBefore[j])) =>
        \A id \in DOMAIN Before :
            (/\ FLe(ScoresBefore[id], 0)
             /\ Cardinality(ScoredHigher(id)) < last.limit
             /\ \A j \in (DOMAIN Before) \ {id} : ScoresBefore[j] # ScoresBefore[id]) =>
                /\ id \in Returned
                /\ Live[id].retrieval_count = Before[id].retrieval_count + 1

\* a query whose scores are all numbers returned and reinforced a record with
\* a negative score
C40_NegativeScoreReturned ==
    /\ FindCalled
    /\ \A j \in DOMAIN Before : ~IsNaN(ScoresBefore[j])
    /\ \E id \in Returned :
          /\ FLt(ScoresBefore[id], 0)
          /\ Live[id].retrieval_count = Before[id].retrieval_count + 1

====
